---- MODULE Spec2Model ----
(***************************************************************************)
(* Model of the LMSR prediction-market core (src/src/math_safe.rs,         *)
(* src/src/market.rs).                                                     *)
(*                                                                         *)
(* The program computes on u64 and u128 values.  They are represented here *)
(* as natural numbers of unbounded size: little-endian sequences of limbs  *)
(* in base 10000 without leading zero limbs (<<>> is 0, <<0, 100>> is      *)
(* 1_000_000).  The width of a Rust integer is imposed where the program   *)
(* imposes it: by the checked_* operations and the `as u64` casts.         *)
(***************************************************************************)
EXTENDS Integers, Sequences, FiniteSets, TLC

(***************************************************************************)
(* Natural numbers wider than the model checker's integers.                *)
(***************************************************************************)
Base == 10000

RECURSIVE N(_)
N(n) == IF n = 0 THEN <<>> ELSE <<n % Base>> \o N(n \div Base)

RECURSIVE Norm(_)
Norm(s) == IF s = <<>> THEN s
           ELSE IF s[Len(s)] = 0 THEN Norm(SubSeq(s, 1, Len(s) - 1)) ELSE s

RECURSIVE CmpFrom(_, _, _)
CmpFrom(a, b, i) == IF i = 0 THEN 0
                    ELSE IF a[i] < b[i] THEN -1
                    ELSE IF a[i] > b[i] THEN 1
                    ELSE CmpFrom(a, b, i - 1)

Cmp(a, b) == IF Len(a) < Len(b) THEN -1
             ELSE IF Len(a) > Len(b) THEN 1
             ELSE CmpFrom(a, b, Len(a))

Lt(a, b) == Cmp(a, b) < 0
Le(a, b) == Cmp(a, b) <= 0
Gt(a, b) == Cmp(a, b) > 0
Ge(a, b) == Cmp(a, b) >= 0

Limb(a, i) == IF i <= Len(a) THEN a[i] ELSE 0

RECURSIVE AddFrom(_, _, _, _)
AddFrom(a, b, i, c) ==
    IF i > Len(a) /\ i > Len(b)
    THEN IF c = 0 THEN <<>> ELSE <<c>>
    ELSE LET s == Limb(a, i) + Limb(b, i) + c
         IN <<s % Base>> \o AddFrom(a, b, i + 1, s \div Base)

Add(a, b) == AddFrom(a, b, 1, 0)

RECURSIVE SubFrom(_, _, _, _)
SubFrom(a, b, i, c) ==
    IF i > Len(a) THEN <<>>
    ELSE LET s == a[i] - Limb(b, i) - c
         IN IF s < 0 THEN <<s + Base>> \o SubFrom(a, b, i + 1, 1)
                     ELSE <<s>> \o SubFrom(a, b, i + 1, 0)

\* a - b for a >= b
Sub(a, b) == Norm(SubFrom(a, b, 1, 0))

RECURSIVE MulSmallFrom(_, _, _, _)
MulSmallFrom(a, d, i, c) ==
    IF i > Len(a)
    THEN IF c = 0 THEN <<>> ELSE <<c>>
    ELSE LET s == a[i] * d + c
         IN <<s % Base>> \o MulSmallFrom(a, d, i + 1, s \div Base)

\* a * d for a limb d
MulSmall(a, d) == IF d = 0 THEN <<>> ELSE MulSmallFrom(a, d, 1, 0)

RECURSIVE Column(_, _, _, _)
Column(a, b, k, i) ==
    IF i > Len(a) \/ i > k THEN 0
    ELSE a[i] * b[k - i + 1] + Column(a, b, k, i + 1)

RECURSIVE MulFrom(_, _, _, _)
MulFrom(a, b, k, c) ==
    IF k > Len(a) + Len(b)
    THEN <<>>
    ELSE LET lo == IF k > Len(b) THEN k - Len(b) + 1 ELSE 1
             s  == Column(a, b, k, lo) + c
         IN <<s % Base>> \o MulFrom(a, b, k + 1, s \div Base)

Mul(a, b) == IF a = <<>> \/ b = <<>> THEN <<>> ELSE Norm(MulFrom(a, b, 1, 0))

RECURSIVE ShortDivFrom(_, _, _, _, _)
ShortDivFrom(a, d, i, r, acc) ==
    IF i = 0 THEN acc
    ELSE LET s == r * Base + a[i]
         IN IF s >= 0 THEN ShortDivFrom(a, d, i - 1, s % d, <<s \div d>> \o acc)
                      ELSE <<>>

RECURSIVE Fix(_, _, _)
Fix(rem, v, q) == IF Lt(rem, MulSmall(v, q)) THEN Fix(rem, v, q - 1) ELSE q

\* the next quotient limb of rem / v (rem < v * Base): estimated from the
\* leading limbs, then corrected downwards
QDigit(rem, v) ==
    LET n == Len(v)
    IN IF Len(rem) < n THEN 0
       ELSE LET top == Limb(rem, n + 1) * Base + rem[n]
                est == top \div v[n]
            IN Fix(rem, v, IF est > Base - 1 THEN Base - 1 ELSE est)

RECURSIVE LongDivFrom(_, _, _, _, _)
LongDivFrom(u, v, i, rem, acc) ==
    IF i = 0 THEN acc
    ELSE LET r1 == Norm(<<u[i]>> \o rem)
             q  == QDigit(r1, v)
             r2 == Sub(r1, MulSmall(v, q))
         IN IF Len(r2) >= 0 THEN LongDivFrom(u, v, i - 1, r2, <<q>> \o acc)
                            ELSE <<>>

\* floor(a / b) for b > 0: a low zero limb of the divisor is dropped from both
\* operands; otherwise schoolbook long division, both operands scaled by d so
\* that the divisor's leading limb is at least Base / 2
RECURSIVE Div(_, _)
Div(a, b) ==
    IF Lt(a, b) THEN <<>>
    ELSE IF Len(b) = 1 THEN Norm(ShortDivFrom(a, b[1], Len(a), 0, <<>>))
    ELSE IF b[1] = 0 THEN Div(Tail(a), Tail(b))
    ELSE LET d == Base \div (b[Len(b)] + 1)
             u == MulSmall(a, d)
         IN Norm(LongDivFrom(u, MulSmall(b, d), Len(u), <<>>, <<>>))

Mod(a, b) == Sub(a, Mul(Div(a, b), b))

Zero == <<>>
One  == <<1>>

(***************************************************************************)
(* Integer widths and Result<T, u32>.                                      *)
(***************************************************************************)
U64_MAX  == <<1615, 955, 737, 6744, 1844>>
U128_MAX == <<1455, 6821, 3176, 6074, 3743, 4634, 8463, 6920, 8236, 340>>
TwoTo64  == Add(U64_MAX, One)

Ok(v)  == [ok |-> TRUE, val |-> v]
Err(e) == [ok |-> FALSE, err |-> e]

\* the `?` operator: the error is returned, a value is passed on
Try(r, F(_)) == IF r.ok THEN F(r.val) ELSE r

\* `x as u64` of a u128
AsU64(x) == IF Le(x, U64_MAX) THEN x ELSE Mod(x, TwoTo64)

u64_checked_add(a, b) ==
    LET s == Add(a, b) IN IF Le(s, U64_MAX) THEN [some |-> TRUE, val |-> s] ELSE [some |-> FALSE]
u64_checked_sub(a, b) ==
    IF Ge(a, b) THEN [some |-> TRUE, val |-> Sub(a, b)] ELSE [some |-> FALSE]
u64_checked_mul(a, b) ==
    LET p == Mul(a, b) IN IF Le(p, U64_MAX) THEN [some |-> TRUE, val |-> p] ELSE [some |-> FALSE]
u128_checked_add(a, b) ==
    LET s == Add(a, b) IN IF Le(s, U128_MAX) THEN [some |-> TRUE, val |-> s] ELSE [some |-> FALSE]
u128_checked_sub(a, b) ==
    IF Ge(a, b) THEN [some |-> TRUE, val |-> Sub(a, b)] ELSE [some |-> FALSE]
u128_checked_mul(a, b) ==
    LET p == Mul(a, b) IN IF Le(p, U128_MAX) THEN [some |-> TRUE, val |-> p] ELSE [some |-> FALSE]

ok_or(o, e) == IF o.some THEN Ok(o.val) ELSE Err(e)

(***************************************************************************)
(* crate::error and crate::config                                          *)
(***************************************************************************)
ERROR_OVERFLOW                == "OVERFLOW"
ERROR_UNDERFLOW               == "UNDERFLOW"
ERROR_DIVISION_BY_ZERO        == "DIVISION_BY_ZERO"
ERROR_INVALID_CALCULATION     == "INVALID_CALCULATION"
ERROR_INVALID_BET_TYPE        == "INVALID_BET_TYPE"
ERROR_INVALID_BET_AMOUNT      == "INVALID_BET_AMOUNT"
ERROR_BET_TOO_LARGE           == "BET_TOO_LARGE"
ERROR_INSUFFICIENT_BALANCE    == "INSUFFICIENT_BALANCE"
ERROR_LIQUIDITY_TOO_HIGH      == "LIQUIDITY_TOO_HIGH"
ERROR_INVALID_MARKET_TITLE    == "INVALID_MARKET_TITLE"
ERROR_INVALID_MARKET_TIME     == "INVALID_MARKET_TIME"
ERROR_MARKET_ALREADY_RESOLVED == "MARKET_ALREADY_RESOLVED"

PRICE_PRECISION   == N(1000000)
FEE_BASIS_POINTS  == N(10000)
PLATFORM_FEE_RATE == N(100)

(***************************************************************************)
(* math_safe.rs                                                            *)
(***************************************************************************)
MAX_LIQUIDITY  == Mul(N(1000000), N(1000000))
MAX_BET_AMOUNT == N(100000000)
MIN_LIQUIDITY  == N(1000)
MAX_SHARES     == N(1000000000)

safe_mul(a, b) == ok_or(u64_checked_mul(a, b), ERROR_OVERFLOW)

safe_div(a, b) == IF b = Zero THEN Err(ERROR_DIVISION_BY_ZERO) ELSE Ok(Div(a, b))

safe_sub(a, b) == ok_or(u64_checked_sub(a, b), ERROR_UNDERFLOW)

\* an addition that wraps at 2^64
safe_add_wrapping(a, b) == Ok(Mod(Add(a, b), TwoTo64))

safe_add(a, b) == ok_or(u64_checked_add(a, b), ERROR_OVERFLOW)

safe_mul_high_precision(a, b) ==
    Try(ok_or(u128_checked_mul(a, b), ERROR_OVERFLOW), LAMBDA result :
        IF Gt(result, U64_MAX) THEN Err(ERROR_OVERFLOW) ELSE Ok(result))

safe_div_high_precision(a, b, c) ==
    IF b = Zero \/ c = Zero THEN Err(ERROR_DIVISION_BY_ZERO)
    ELSE Try(ok_or(u128_checked_mul(a, b), ERROR_OVERFLOW), LAMBDA numerator :
        LET result == Div(numerator, c)
        IN IF Gt(result, U64_MAX) THEN Err(ERROR_OVERFLOW) ELSE Ok(result))

FP_SCALE == N(1000000)

fp_mul(a, b) ==
    Try(ok_or(u128_checked_mul(a, b), ERROR_OVERFLOW), LAMBDA wide :
        Ok(Div(wide, FP_SCALE)))

fp_div(a, b) ==
    IF b = Zero THEN Err(ERROR_DIVISION_BY_ZERO)
    ELSE Try(ok_or(u128_checked_mul(a, FP_SCALE), ERROR_OVERFLOW), LAMBDA wide :
        Ok(Div(wide, b)))

\* exp(x) ~ 1 + x + x^2/2 + x^3/6
fp_exp_taylor(x_fp) ==
    LET one == FP_SCALE
        x1  == x_fp
    IN Try(fp_mul(x_fp, x_fp), LAMBDA x2 :
       Try(fp_div(x2, Mul(N(2), FP_SCALE)), LAMBDA half :
       Try(fp_mul(x2, x_fp), LAMBDA x3 :
       Try(fp_div(x3, Mul(N(6), FP_SCALE)), LAMBDA sixth :
       Try(ok_or(u128_checked_add(one, x1), ERROR_OVERFLOW), LAMBDA tmp1 :
       Try(ok_or(u128_checked_add(tmp1, half), ERROR_OVERFLOW), LAMBDA tmp2 :
       Try(ok_or(u128_checked_add(tmp2, sixth), ERROR_OVERFLOW), LAMBDA sum :
           Ok(sum))))))))

\* ln(y) ~ (y-1) - (y-1)^2/2 + (y-1)^3/3
fp_ln_series(y_fp) ==
    IF Lt(y_fp, FP_SCALE) THEN Err(ERROR_INVALID_CALCULATION)
    ELSE
       Try(ok_or(u128_checked_sub(y_fp, FP_SCALE), ERROR_UNDERFLOW), LAMBDA z :
       Try(fp_mul(z, z), LAMBDA z2 :
       Try(fp_mul(z2, z), LAMBDA z3 :
       Try(fp_div(z2, Mul(N(2), FP_SCALE)), LAMBDA z2_over_2 :
       Try(fp_div(z3, Mul(N(3), FP_SCALE)), LAMBDA z3_over_3 :
       Try(ok_or(u128_checked_sub(z, z2_over_2), ERROR_UNDERFLOW), LAMBDA tmp :
       Try(ok_or(u128_checked_add(tmp, z3_over_3), ERROR_OVERFLOW), LAMBDA out :
           Ok(out))))))))

\* exp(q/b)
fp_exp_q_over_b(q, b) ==
    IF b = Zero THEN Err(ERROR_INVALID_CALCULATION)
    ELSE Try(ok_or(u128_checked_mul(q, FP_SCALE), ERROR_OVERFLOW), LAMBDA qs :
         fp_exp_taylor(Div(qs, b)))

\* C(q_yes, q_no) = b * ln(exp(q_yes/b) + exp(q_no/b))
lmsr_cost(q_yes, q_no, b) ==
    Try(fp_exp_q_over_b(q_yes, b), LAMBDA e_yes :
    Try(fp_exp_q_over_b(q_no, b), LAMBDA e_no :
    Try(ok_or(u128_checked_add(e_yes, e_no), ERROR_OVERFLOW), LAMBDA sum_e :
    Try(fp_ln_series(sum_e), LAMBDA ln_sum :
        ok_or(u128_checked_mul(b, ln_sum), ERROR_OVERFLOW)))))

\* the YES price as it is after one more YES share
lmsr_price_yes_after_one_share(q_yes, q_no, b) ==
    Try(fp_exp_q_over_b(Add(q_yes, One), b), LAMBDA e_yes :
    Try(fp_exp_q_over_b(q_no, b), LAMBDA e_no :
    Try(ok_or(u128_checked_add(e_yes, e_no), ERROR_OVERFLOW), LAMBDA denom :
        fp_div(e_yes, denom))))

\* the YES price with the NO exponential as the numerator
lmsr_price_yes_of_e_no(q_yes, q_no, b) ==
    Try(fp_exp_q_over_b(q_yes, b), LAMBDA e_yes :
    Try(fp_exp_q_over_b(q_no, b), LAMBDA e_no :
    Try(ok_or(u128_checked_add(e_yes, e_no), ERROR_OVERFLOW), LAMBDA denom :
        fp_div(e_no, denom))))

lmsr_price_yes(q_yes, q_no, b) ==
    Try(fp_exp_q_over_b(q_yes, b), LAMBDA e_yes :
    Try(fp_exp_q_over_b(q_no, b), LAMBDA e_no :
    Try(ok_or(u128_checked_add(e_yes, e_no), ERROR_OVERFLOW), LAMBDA denom :
        fp_div(e_yes, denom))))

\* the NO price divided out on its own, not taken as FP_SCALE - p_yes
lmsr_price_no_divided(q_yes, q_no, b) ==
    Try(fp_exp_q_over_b(q_yes, b), LAMBDA e_yes :
    Try(fp_exp_q_over_b(q_no, b), LAMBDA e_no :
    Try(ok_or(u128_checked_add(e_yes, e_no), ERROR_OVERFLOW), LAMBDA denom :
        fp_div(e_no, denom))))

lmsr_price_no(q_yes, q_no, b) ==
    Try(lmsr_price_yes(q_yes, q_no, b), LAMBDA p_yes :
        ok_or(u128_checked_sub(FP_SCALE, p_yes), ERROR_UNDERFLOW))

lmsr_buy_yes_quote(q_yes, q_no, b, delta_yes) ==
    Try(lmsr_cost(q_yes, q_no, b), LAMBDA c_before :
    Try(ok_or(u64_checked_add(q_yes, delta_yes), ERROR_OVERFLOW), LAMBDA q_after :
    Try(lmsr_cost(q_after, q_no, b), LAMBDA c_after :
        ok_or(u128_checked_sub(c_after, c_before), ERROR_UNDERFLOW))))

lmsr_buy_no_quote(q_yes, q_no, b, delta_no) ==
    Try(lmsr_cost(q_yes, q_no, b), LAMBDA c_before :
    Try(ok_or(u64_checked_add(q_no, delta_no), ERROR_OVERFLOW), LAMBDA q_after :
    Try(lmsr_cost(q_yes, q_after, b), LAMBDA c_after :
        ok_or(u128_checked_sub(c_after, c_before), ERROR_UNDERFLOW))))

\* a YES sell quote that takes the shares off the NO supply
lmsr_sell_yes_quote_off_no(q_yes, q_no, b, s_yes) ==
    IF Gt(s_yes, q_yes) THEN Err(ERROR_INVALID_BET_AMOUNT)
    ELSE
    Try(lmsr_cost(q_yes, q_no, b), LAMBDA c_before :
    Try(lmsr_cost(q_yes, IF Gt(s_yes, q_no) THEN Zero ELSE Sub(q_no, s_yes), b),
        LAMBDA c_after :
        ok_or(u128_checked_sub(c_before, c_after), ERROR_UNDERFLOW)))

lmsr_sell_yes_quote(q_yes, q_no, b, s_yes) ==
    IF Gt(s_yes, q_yes) THEN Err(ERROR_INVALID_BET_AMOUNT)
    ELSE
    Try(lmsr_cost(q_yes, q_no, b), LAMBDA c_before :
    Try(lmsr_cost(Sub(q_yes, s_yes), q_no, b), LAMBDA c_after :
        ok_or(u128_checked_sub(c_before, c_after), ERROR_UNDERFLOW)))

lmsr_sell_no_quote(q_yes, q_no, b, s_no) ==
    IF Gt(s_no, q_no) THEN Err(ERROR_INVALID_BET_AMOUNT)
    ELSE
    Try(lmsr_cost(q_yes, q_no, b), LAMBDA c_before :
    Try(lmsr_cost(q_yes, Sub(q_no, s_no), b), LAMBDA c_after :
        ok_or(u128_checked_sub(c_before, c_after), ERROR_UNDERFLOW)))

calculate_yes_price_lmsr(q_yes, q_no, b) ==
    Try(lmsr_price_yes(q_yes, q_no, b), LAMBDA p_yes_fp :
        IF Gt(p_yes_fp, U64_MAX) THEN Err(ERROR_OVERFLOW) ELSE Ok(p_yes_fp))

calculate_no_price_lmsr(q_yes, q_no, b) ==
    Try(lmsr_price_no(q_yes, q_no, b), LAMBDA p_no_fp :
        IF Gt(p_no_fp, U64_MAX) THEN Err(ERROR_OVERFLOW) ELSE Ok(p_no_fp))

\* the fee rounded down: the numerator is divided as it is
calculate_fee_safe_floor(amount) ==
    IF Gt(amount, MAX_BET_AMOUNT) THEN Err(ERROR_BET_TOO_LARGE)
    ELSE
    Try(ok_or(u128_checked_mul(amount, PLATFORM_FEE_RATE), ERROR_OVERFLOW), LAMBDA numerator :
        LET result == Div(numerator, FEE_BASIS_POINTS)
        IN IF Gt(result, U64_MAX) THEN Err(ERROR_OVERFLOW) ELSE Ok(result))

\* ceil(amount * PLATFORM_FEE_RATE / FEE_BASIS_POINTS)
calculate_fee_safe(amount) ==
    IF Gt(amount, MAX_BET_AMOUNT) THEN Err(ERROR_BET_TOO_LARGE)
    ELSE
    Try(ok_or(u128_checked_mul(amount, PLATFORM_FEE_RATE), ERROR_OVERFLOW), LAMBDA numerator :
    Try(ok_or(u128_checked_add(numerator, Sub(FEE_BASIS_POINTS, One)), ERROR_OVERFLOW),
        LAMBDA rounded_numerator :
        LET result == Div(rounded_numerator, FEE_BASIS_POINTS)
        IN IF Gt(result, U64_MAX) THEN Err(ERROR_OVERFLOW) ELSE Ok(result)))

calculate_net_amount_safe(bet_amount) ==
    Try(calculate_fee_safe(bet_amount), LAMBDA fee : safe_sub(bet_amount, fee))

validate_b(b) == IF b = Zero THEN Err(ERROR_INVALID_CALCULATION) ELSE Ok(<<>>)

validate_bet_amount(bet_amount) ==
    IF bet_amount = Zero THEN Err(ERROR_INVALID_BET_AMOUNT)
    ELSE IF Gt(bet_amount, MAX_BET_AMOUNT) THEN Err(ERROR_BET_TOO_LARGE)
    ELSE Ok(<<>>)

validate_shares(shares) ==
    IF shares = Zero THEN Err(ERROR_INVALID_BET_AMOUNT)
    ELSE IF Gt(shares, MAX_SHARES) THEN Err(ERROR_BET_TOO_LARGE)
    ELSE Ok(<<>>)

validate_liquidity(liquidity) ==
    IF Lt(liquidity, MIN_LIQUIDITY) THEN Err(ERROR_INVALID_CALCULATION)
    ELSE IF Gt(liquidity, MAX_LIQUIDITY) THEN Err(ERROR_LIQUIDITY_TOO_HIGH)
    ELSE Ok(<<>>)

(***************************************************************************)
(* market.rs: MarketData.  A market record has the fields of the struct;   *)
(* outcome is "None", "Some(false)" (NO wins) or "Some(true)" (YES wins).  *)
(* A call on `&mut self` is modelled by an operator that returns the       *)
(* record as the call leaves it together with the returned Result.         *)
(***************************************************************************)
OutcomeNone  == "None"
OutcomeNo    == "Some(false)"
OutcomeYes   == "Some(true)"

Some(outcome) == IF outcome THEN OutcomeYes ELSE OutcomeNo

\* the constructor without the check of end_time against resolution_time
new_with_end_after_resolution(title, start_time, end_time, resolution_time, initial_yes_liquidity, initial_no_liquidity, b) ==
    IF Len(title) > 8 THEN Err(ERROR_INVALID_MARKET_TITLE)
    ELSE IF Ge(start_time, end_time) THEN Err(ERROR_INVALID_MARKET_TIME)
    ELSE
    Try(validate_liquidity(initial_yes_liquidity), LAMBDA u1 :
    Try(validate_liquidity(initial_no_liquidity), LAMBDA u2 :
    Try(validate_b(b), LAMBDA u3 :
        Ok([title                |-> title,
            start_time           |-> start_time,
            end_time             |-> end_time,
            resolution_time      |-> resolution_time,
            total_yes_shares     |-> initial_yes_liquidity,
            total_no_shares      |-> initial_no_liquidity,
            b                    |-> b,
            pool_balance         |-> Zero,
            total_volume         |-> Zero,
            resolved             |-> FALSE,
            outcome              |-> OutcomeNone,
            total_fees_collected |-> Zero]))))

new_with_title_u64_and_liquidity(title, start_time, end_time, resolution_time, initial_yes_liquidity, initial_no_liquidity, b) ==
    IF Len(title) > 8 THEN Err(ERROR_INVALID_MARKET_TITLE)
    ELSE IF Ge(start_time, end_time) THEN Err(ERROR_INVALID_MARKET_TIME)
    ELSE IF Gt(end_time, resolution_time) THEN Err(ERROR_INVALID_MARKET_TIME)
    ELSE
    Try(validate_liquidity(initial_yes_liquidity), LAMBDA u1 :
    Try(validate_liquidity(initial_no_liquidity), LAMBDA u2 :
    Try(validate_b(b), LAMBDA u3 :
        Ok([title                |-> title,
            start_time           |-> start_time,
            end_time             |-> end_time,
            resolution_time      |-> resolution_time,
            total_yes_shares     |-> initial_yes_liquidity,
            total_no_shares      |-> initial_no_liquidity,
            b                    |-> b,
            pool_balance         |-> Zero,
            total_volume         |-> Zero,
            resolved             |-> FALSE,
            outcome              |-> OutcomeNone,
            total_fees_collected |-> Zero]))))

\* is_active that still holds at end_time
is_active_at_end(self, current_time) ==
    Ge(current_time, self.start_time) /\ Le(current_time, self.end_time) /\ ~self.resolved

is_active(self, current_time) ==
    Ge(current_time, self.start_time) /\ Lt(current_time, self.end_time) /\ ~self.resolved

can_resolve(self, current_time) ==
    Ge(current_time, self.resolution_time) /\ ~self.resolved

get_yes_price(self) ==
    calculate_yes_price_lmsr(self.total_yes_shares, self.total_no_shares, self.b)

get_no_price(self) ==
    calculate_no_price_lmsr(self.total_yes_shares, self.total_no_shares, self.b)

validate_bet_type(bet_type) ==
    IF bet_type = Zero THEN Ok(FALSE)
    ELSE IF bet_type = One THEN Ok(TRUE)
    ELSE Err(ERROR_INVALID_BET_TYPE)

\* the lower middle of [lo, hi]
mid_lower(lo, hi) == Add(lo, Div(Sub(hi, lo), N(2)))

\* let mid = lo + (hi - lo + 1) / 2
mid_upper(lo, hi) == Add(lo, Div(Add(Sub(hi, lo), One), N(2)))

\* the `while lo < hi` loop of calculate_shares; it ends with Ok(lo), or with
\* the error of the first probe whose quote fails
RECURSIVE search_shares(_, _, _, _, _)
search_shares(self, is_yes_bet, net_amount, lo, hi) ==
    IF ~Lt(lo, hi) THEN Ok(lo)
    ELSE LET mid == Add(lo, Div(Add(Sub(hi, lo), One), N(2)))
             quote_res ==
                 IF is_yes_bet
                 THEN lmsr_buy_yes_quote(self.total_yes_shares, self.total_no_shares, self.b, mid)
                 ELSE lmsr_buy_no_quote(self.total_yes_shares, self.total_no_shares, self.b, mid)
         IN IF ~quote_res.ok THEN quote_res
            ELSE LET quote_tokens == AsU64(Div(quote_res.val, N(1000000)))
                 IN IF Le(quote_tokens, net_amount)
                    THEN search_shares(self, is_yes_bet, net_amount, mid, hi)
                    ELSE search_shares(self, is_yes_bet, net_amount, lo, Sub(mid, One))

calculate_shares(self, bet_type, bet_amount) ==
    Try(validate_bet_amount(bet_amount), LAMBDA u1 :
    Try(calculate_fee_safe(bet_amount), LAMBDA fee :
    Try(safe_sub(bet_amount, fee), LAMBDA net_amount :
    Try(validate_bet_type(bet_type), LAMBDA is_yes_bet :
    Try(search_shares(self, is_yes_bet, net_amount, Zero, MAX_SHARES), LAMBDA lo :
    Try(validate_shares(lo), LAMBDA u2 :
        Ok(lo)))))))

\* Ok(<<net_payout_tokens, fee_tokens>>)
calculate_sell_details(self, sell_type, shares_to_sell) ==
    Try(validate_shares(shares_to_sell), LAMBDA u1 :
    Try(validate_bet_type(sell_type), LAMBDA is_yes_sell :
    Try(IF is_yes_sell
        THEN lmsr_sell_yes_quote(self.total_yes_shares, self.total_no_shares, self.b, shares_to_sell)
        ELSE lmsr_sell_no_quote(self.total_yes_shares, self.total_no_shares, self.b, shares_to_sell),
        LAMBDA gross_quote_fp :
        LET gross_tokens == AsU64(Div(gross_quote_fp, N(1000000)))
        IN IF gross_tokens = Zero THEN Ok(<<Zero, Zero>>)
           ELSE Try(calculate_fee_safe(gross_tokens), LAMBDA fee :
                Try(safe_sub(gross_tokens, fee), LAMBDA net_payout :
                    Ok(<<net_payout, fee>>))))))

\* a call that returns `ret` and leaves the record as `self`
Call(ret, self) == [ret |-> ret, self |-> self]

\* `self.field = r?;` followed by the rest of the function: on an error the
\* function returns with the assignments made so far
Assign(self, r, Store(_, _), Rest(_)) ==
    IF r.ok THEN Rest(Store(self, r.val)) ELSE Call(r, self)

\* `let v = r?;` followed by the rest of the function
Let(self, r, Rest(_)) == IF r.ok THEN Rest(r.val) ELSE Call(r, self)

\* place_bet with the whole bet credited to the pool
place_bet_gross_to_pool(self, bet_type, bet_amount) ==
    Let(self, validate_bet_amount(bet_amount), LAMBDA u1 :
    Let(self, calculate_shares(self, bet_type, bet_amount), LAMBDA shares :
    IF shares = Zero THEN Call(Err(ERROR_INVALID_BET_AMOUNT), self)
    ELSE
    Let(self, calculate_fee_safe(bet_amount), LAMBDA fee_tokens :
    Let(self, safe_sub(bet_amount, fee_tokens), LAMBDA net_tokens :
    LET is_yes_bet == bet_type = One
    IN
    Assign(self,
           IF is_yes_bet THEN safe_add(self.total_yes_shares, shares)
                         ELSE safe_add(self.total_no_shares, shares),
           LAMBDA s, v : IF is_yes_bet THEN [s EXCEPT !.total_yes_shares = v]
                                       ELSE [s EXCEPT !.total_no_shares = v],
           LAMBDA s1 :
    Assign(s1, safe_add(s1.pool_balance, bet_amount),
           LAMBDA s, v : [s EXCEPT !.pool_balance = v], LAMBDA s2 :
    Assign(s2, safe_add(s2.total_volume, bet_amount),
           LAMBDA s, v : [s EXCEPT !.total_volume = v], LAMBDA s3 :
    Assign(s3, safe_add(s3.total_fees_collected, fee_tokens),
           LAMBDA s, v : [s EXCEPT !.total_fees_collected = v], LAMBDA s4 :
    Call(Ok(shares), s4)))))))))

\* place_bet without `self.pool_balance = safe_add(self.pool_balance, net_tokens)?`
place_bet_pool_unfunded(self, bet_type, bet_amount) ==
    LET funded == place_bet_gross_to_pool(self, bet_type, bet_amount)
    IN Call(funded.ret, [funded.self EXCEPT !.pool_balance = self.pool_balance])

place_bet(self, bet_type, bet_amount) ==
    Let(self, validate_bet_amount(bet_amount), LAMBDA u1 :
    Let(self, calculate_shares(self, bet_type, bet_amount), LAMBDA shares :
    IF shares = Zero THEN Call(Err(ERROR_INVALID_BET_AMOUNT), self)
    ELSE
    Let(self, calculate_fee_safe(bet_amount), LAMBDA fee_tokens :
    Let(self, safe_sub(bet_amount, fee_tokens), LAMBDA net_tokens :
    LET is_yes_bet == bet_type = One
    IN
    Assign(self,
           IF is_yes_bet THEN safe_add(self.total_yes_shares, shares)
                         ELSE safe_add(self.total_no_shares, shares),
           LAMBDA s, v : IF is_yes_bet THEN [s EXCEPT !.total_yes_shares = v]
                                       ELSE [s EXCEPT !.total_no_shares = v],
           LAMBDA s1 :
    Assign(s1, safe_add(s1.pool_balance, net_tokens),
           LAMBDA s, v : [s EXCEPT !.pool_balance = v], LAMBDA s2 :
    Assign(s2, safe_add(s2.total_volume, bet_amount),
           LAMBDA s, v : [s EXCEPT !.total_volume = v], LAMBDA s3 :
    Assign(s3, safe_add(s3.total_fees_collected, fee_tokens),
           LAMBDA s, v : [s EXCEPT !.total_fees_collected = v], LAMBDA s4 :
    Call(Ok(shares), s4)))))))))

\* sell_shares that records only the payout as volume
sell_shares_volume_net(self, sell_type, shares_to_sell) ==
    LET is_yes_sell    == sell_type = One
        current_shares == IF is_yes_sell THEN self.total_yes_shares ELSE self.total_no_shares
    IN
    IF Gt(shares_to_sell, current_shares) THEN Call(Err(ERROR_INSUFFICIENT_BALANCE), self)
    ELSE
    Let(self, calculate_sell_details(self, sell_type, shares_to_sell), LAMBDA details :
    LET payout_tokens == details[1]
        fee_tokens    == details[2]
    IN
    IF payout_tokens = Zero THEN Call(Err(ERROR_INVALID_BET_AMOUNT), self)
    ELSE IF Gt(payout_tokens, self.pool_balance) THEN Call(Err(ERROR_INSUFFICIENT_BALANCE), self)
    ELSE
    Assign(self,
           IF is_yes_sell THEN safe_sub(self.total_yes_shares, shares_to_sell)
                          ELSE safe_sub(self.total_no_shares, shares_to_sell),
           LAMBDA s, v : IF is_yes_sell THEN [s EXCEPT !.total_yes_shares = v]
                                        ELSE [s EXCEPT !.total_no_shares = v],
           LAMBDA s1 :
    Assign(s1, safe_sub(s1.pool_balance, payout_tokens),
           LAMBDA s, v : [s EXCEPT !.pool_balance = v], LAMBDA s2 :
    Assign(s2, safe_add(s2.total_fees_collected, fee_tokens),
           LAMBDA s, v : [s EXCEPT !.total_fees_collected = v], LAMBDA s3 :
    Let(s3, safe_add(payout_tokens, fee_tokens), LAMBDA tx_value :
    Assign(s3, safe_add(s3.total_volume, payout_tokens),
           LAMBDA s, v : [s EXCEPT !.total_volume = v], LAMBDA s4 :
    Call(Ok(payout_tokens), s4)))))))

\* sell_shares that does not compare the payout with the pool
sell_shares_pool_unchecked(self, sell_type, shares_to_sell) ==
    LET is_yes_sell    == sell_type = One
        current_shares == IF is_yes_sell THEN self.total_yes_shares ELSE self.total_no_shares
    IN
    IF Gt(shares_to_sell, current_shares) THEN Call(Err(ERROR_INSUFFICIENT_BALANCE), self)
    ELSE
    Let(self, calculate_sell_details(self, sell_type, shares_to_sell), LAMBDA details :
    LET payout_tokens == details[1]
        fee_tokens    == details[2]
    IN
    IF payout_tokens = Zero THEN Call(Err(ERROR_INVALID_BET_AMOUNT), self)
    ELSE
    Assign(self,
           IF is_yes_sell THEN safe_sub(self.total_yes_shares, shares_to_sell)
                          ELSE safe_sub(self.total_no_shares, shares_to_sell),
           LAMBDA s, v : IF is_yes_sell THEN [s EXCEPT !.total_yes_shares = v]
                                        ELSE [s EXCEPT !.total_no_shares = v],
           LAMBDA s1 :
    Assign(s1, safe_sub(s1.pool_balance, payout_tokens),
           LAMBDA s, v : [s EXCEPT !.pool_balance = v], LAMBDA s2 :
    Assign(s2, safe_add(s2.total_fees_collected, fee_tokens),
           LAMBDA s, v : [s EXCEPT !.total_fees_collected = v], LAMBDA s3 :
    Let(s3, safe_add(payout_tokens, fee_tokens), LAMBDA tx_value :
    Assign(s3, safe_add(s3.total_volume, tx_value),
           LAMBDA s, v : [s EXCEPT !.total_volume = v], LAMBDA s4 :
    Call(Ok(payout_tokens), s4)))))))

sell_shares(self, sell_type, shares_to_sell) ==
    LET is_yes_sell    == sell_type = One
        current_shares == IF is_yes_sell THEN self.total_yes_shares ELSE self.total_no_shares
    IN
    IF Gt(shares_to_sell, current_shares) THEN Call(Err(ERROR_INSUFFICIENT_BALANCE), self)
    ELSE
    Let(self, calculate_sell_details(self, sell_type, shares_to_sell), LAMBDA details :
    LET payout_tokens == details[1]
        fee_tokens    == details[2]
    IN
    IF payout_tokens = Zero THEN Call(Err(ERROR_INVALID_BET_AMOUNT), self)
    ELSE IF Gt(payout_tokens, self.pool_balance) THEN Call(Err(ERROR_INSUFFICIENT_BALANCE), self)
    ELSE
    Assign(self,
           IF is_yes_sell THEN safe_sub(self.total_yes_shares, shares_to_sell)
                          ELSE safe_sub(self.total_no_shares, shares_to_sell),
           LAMBDA s, v : IF is_yes_sell THEN [s EXCEPT !.total_yes_shares = v]
                                        ELSE [s EXCEPT !.total_no_shares = v],
           LAMBDA s1 :
    Assign(s1, safe_sub(s1.pool_balance, payout_tokens),
           LAMBDA s, v : [s EXCEPT !.pool_balance = v], LAMBDA s2 :
    Assign(s2, safe_add(s2.total_fees_collected, fee_tokens),
           LAMBDA s, v : [s EXCEPT !.total_fees_collected = v], LAMBDA s3 :
    Let(s3, safe_add(payout_tokens, fee_tokens), LAMBDA tx_value :
    Assign(s3, safe_add(s3.total_volume, tx_value),
           LAMBDA s, v : [s EXCEPT !.total_volume = v], LAMBDA s4 :
    Call(Ok(payout_tokens), s4)))))))

\* resolve that does not read the resolved flag
resolve_again(self, outcome) ==
    Call(Ok(<<>>), [self EXCEPT !.resolved = TRUE, !.outcome = Some(outcome)])

\* resolve that sets the flag and leaves the outcome
resolve_flag_only(self, outcome) ==
    IF self.resolved THEN Call(Err(ERROR_MARKET_ALREADY_RESOLVED), self)
    ELSE Call(Ok(<<>>), [self EXCEPT !.resolved = TRUE])

resolve(self, outcome) ==
    IF self.resolved THEN Call(Err(ERROR_MARKET_ALREADY_RESOLVED), self)
    ELSE Call(Ok(<<>>), [self EXCEPT !.resolved = TRUE, !.outcome = Some(outcome)])

\* calculate_payout that pays for the shares of both sides
calculate_payout_all_shares(self, yes_shares, no_shares) ==
    IF ~self.resolved \/ self.pool_balance = Zero THEN Ok(Zero)
    ELSE IF self.outcome = OutcomeYes
         THEN IF self.total_yes_shares = Zero THEN Ok(Zero)
              ELSE safe_div_high_precision(Add(yes_shares, no_shares), self.pool_balance, self.total_yes_shares)
    ELSE IF self.outcome = OutcomeNo
         THEN IF self.total_no_shares = Zero THEN Ok(Zero)
              ELSE safe_div_high_precision(Add(yes_shares, no_shares), self.pool_balance, self.total_no_shares)
    ELSE Ok(Zero)

\* calculate_payout that rounds the pro-rata share up
calculate_payout_rounded_up(self, yes_shares, no_shares) ==
    LET shares == IF self.outcome = OutcomeYes THEN yes_shares ELSE no_shares
        supply == IF self.outcome = OutcomeYes THEN self.total_yes_shares
                                               ELSE self.total_no_shares
    IN IF ~self.resolved \/ self.pool_balance = Zero THEN Ok(Zero)
       ELSE IF self.outcome \notin {OutcomeYes, OutcomeNo} \/ supply = Zero THEN Ok(Zero)
       ELSE safe_div_high_precision(Add(Mul(shares, self.pool_balance), Sub(supply, One)),
                                    One, supply)

calculate_payout(self, yes_shares, no_shares) ==
    IF ~self.resolved \/ self.pool_balance = Zero THEN Ok(Zero)
    ELSE IF self.outcome = OutcomeYes
         THEN IF self.total_yes_shares = Zero THEN Ok(Zero)
              ELSE safe_div_high_precision(yes_shares, self.pool_balance, self.total_yes_shares)
    ELSE IF self.outcome = OutcomeNo
         THEN IF self.total_no_shares = Zero THEN Ok(Zero)
              ELSE safe_div_high_precision(no_shares, self.pool_balance, self.total_no_shares)
    ELSE Ok(Zero)

\* withdraw_fees that takes the amount out of the pool as well
withdraw_fees_from_pool(self, amount) ==
    IF amount = Zero \/ Gt(amount, self.total_fees_collected)
    THEN Call(Err(ERROR_INVALID_BET_AMOUNT), self)
    ELSE Assign(self, safe_sub(self.total_fees_collected, amount),
                LAMBDA s, v : [s EXCEPT !.total_fees_collected = v,
                                        !.pool_balance = Sub(s.pool_balance, amount)],
                LAMBDA s1 :
         Call(Ok(amount), s1))

\* withdraw_fees that books the withdrawal against the volume as well
withdraw_fees_off_volume(self, amount) ==
    IF amount = Zero \/ Gt(amount, self.total_fees_collected)
    THEN Call(Err(ERROR_INVALID_BET_AMOUNT), self)
    ELSE Assign(self, safe_sub(self.total_fees_collected, amount),
                LAMBDA s, v : [s EXCEPT !.total_fees_collected = v,
                                        !.total_volume = Sub(s.total_volume, amount)],
                LAMBDA s1 :
         Call(Ok(amount), s1))

withdraw_fees(self, amount) ==
    IF amount = Zero \/ Gt(amount, self.total_fees_collected)
    THEN Call(Err(ERROR_INVALID_BET_AMOUNT), self)
    ELSE Assign(self, safe_sub(self.total_fees_collected, amount),
                LAMBDA s, v : [s EXCEPT !.total_fees_collected = v], LAMBDA s1 :
         Call(Ok(amount), s1))

(***************************************************************************)
(* impl StorageData for MarketData.  from_data reads the words in order    *)
(* with next().unwrap(): it panics when the words run out.                 *)
(***************************************************************************)
Panic == [panicked |-> TRUE]

from_data(u64data) ==
    IF Len(u64data) = 0 THEN Panic
    ELSE LET title_len == u64data[1]
             rest      == Len(u64data) - 1
             n         == IF title_len = Zero THEN 0 ELSE title_len[1]
         IN IF Gt(title_len, N(rest)) THEN Panic
            ELSE IF rest - n < 11 THEN Panic
            ELSE LET w(k) == u64data[1 + n + k]
                 IN [panicked             |-> FALSE,
                     title                |-> SubSeq(u64data, 2, 1 + n),
                     start_time           |-> w(1),
                     end_time             |-> w(2),
                     resolution_time      |-> w(3),
                     total_yes_shares     |-> w(4),
                     total_no_shares      |-> w(5),
                     b                    |-> w(6),
                     pool_balance         |-> w(7),
                     total_volume         |-> w(8),
                     resolved             |-> w(9) # Zero,
                     outcome              |-> IF w(10) = Zero THEN OutcomeNone
                                              ELSE IF w(10) = One THEN OutcomeNo
                                              ELSE OutcomeYes,
                     total_fees_collected |-> w(11)]

\* to_data that writes the outcome as one bit
to_data_outcome_bit(self, data) ==
    data \o <<N(Len(self.title))>> \o self.title \o
    << self.start_time, self.end_time, self.resolution_time,
       self.total_yes_shares, self.total_no_shares, self.b,
       self.pool_balance, self.total_volume,
       IF self.resolved THEN One ELSE Zero,
       IF self.outcome = OutcomeYes THEN One ELSE Zero,
       self.total_fees_collected >>

to_data(self, data) ==
    data \o <<N(Len(self.title))>> \o self.title \o
    << self.start_time, self.end_time, self.resolution_time,
       self.total_yes_shares, self.total_no_shares, self.b,
       self.pool_balance, self.total_volume,
       IF self.resolved THEN One ELSE Zero,
       IF self.outcome = OutcomeNone THEN Zero
       ELSE IF self.outcome = OutcomeNo THEN One ELSE N(2),
       self.total_fees_collected >>

Market(loaded) == [f \in DOMAIN loaded \ {"panicked"} |-> loaded[f]]

(***************************************************************************)
(* event.rs: the event buffer EVENTS, a Vec<u64> of the process.  The      *)
(* functions are modelled on the buffer they read and write.               *)
(***************************************************************************)
TwoTo32 == Mul(N(65536), N(65536))

\* typ << 32 on a u64: the bits shifted out are dropped
ShiftLeft32(typ) == Mod(Mul(typ, TwoTo32), TwoTo64)

\* clear_events that hands out a copy and keeps the buffer
clear_events_keeping(events, a) == Call(a \o events, events)

\* c = a; c.append(&mut EVENTS): the buffer is moved to the end of c
clear_events(events, a) == Call(a \o events, <<>>)

\* the sum cannot exceed a u64: the low 32 bits of typ << 32 are zero and
\* data.len() is below 2^32 for every payload of the model
insert_event(events, typ, data) ==
    (events \o <<Add(ShiftLeft32(typ), N(Len(data)))>>) \o data

(***************************************************************************)
(* The state machine.  The host owns one market record m and calls the     *)
(* mutating operations on it one at a time; a call runs to its return, and *)
(* the host takes the returned Result before it calls again.  op, pre and  *)
(* ret record the call that returned last: its name and arguments, the     *)
(* record before it, and its Result.                                       *)
(***************************************************************************)
VARIABLES m, pc, op, pre, ret, trades, withdrawals

(***************************************************************************)
(* EVENTS is the event buffer.  inserted and drained are history           *)
(* variables: the event words the core was asked to log, and the event     *)
(* words the host has taken out with clear_events, both in order.          *)
(***************************************************************************)
VARIABLES EVENTS, inserted, drained
vars == <<m, pc, op, pre, ret, trades, withdrawals, EVENTS, inserted, drained>>

\* bound of the model: the words of the events logged
MaxEventWords == 5

\* bounds of the model: the trades and the fee withdrawals that change the record
MaxTrades      == 2
MaxWithdrawals == 1

\* the arguments the host calls with
Sides        == {Zero, One, N(2)}
BetAmounts   == {Zero, N(5000), N(10000), Add(MAX_BET_AMOUNT, One)}
ShareAmounts == {Zero, N(500), N(4999), N(19998), Add(MAX_SHARES, One)}
FeeAmounts   == {Zero, N(100), N(1000000)}
PayoutShares == {Zero, N(4999), U64_MAX}

\* the arguments the host creates a market with
Titles      == {<<>>, <<N(77)>>, [i \in 1..9 |-> N(i)]}
Times       == {<<Zero, N(1000), N(1000)>>, <<Zero, N(1000), N(2000)>>,
                <<N(1000), N(1000), N(2000)>>, <<Zero, N(2000), N(1000)>>}
Liquidities == {Sub(MIN_LIQUIDITY, One), MIN_LIQUIDITY, N(1500),
                MAX_LIQUIDITY, Add(MAX_LIQUIDITY, One)}
Bs          == {Zero, One, N(10000), N(1000000000)}

\* the amounts the host asks the fee of
Amounts     == {Zero, One, N(50), N(99), N(100), N(101), N(1960), N(10000),
                MAX_BET_AMOUNT, Add(MAX_BET_AMOUNT, One), U64_MAX}

\* the numbers of shares a buy quote is asked for
Deltas      == {Zero, One, N(1000), N(1001), N(5000), MAX_SHARES}

\* the host before it has a market
NoMarket == [created |-> FALSE]

NoOp  == [name |-> "none"]
NoRet == [ok |-> FALSE, err |-> "none"]

\* create_test_market() of security_tests.rs
TestMarket ==
    new_with_title_u64_and_liquidity(<<>>, Zero, N(1000), N(1000),
                                     N(1000), N(1000), N(10000)).val

\* the same market with a liquidity parameter that keeps q/b small
DeepMarket ==
    new_with_title_u64_and_liquidity(<<N(77)>>, Zero, N(1000), N(2000),
                                     N(1000), N(1000), N(1000000000)).val

\* a record as the store may hold it: total_volume close to u64::MAX
StoredWords ==
    << One, N(77), Zero, N(1000), N(2000), N(1000), N(1000), N(1000000000),
       N(20000), Sub(U64_MAX, N(5000)), Zero, Zero, Zero >>

\* the word sequences the host loads a market from: a whole record, a
\* record cut off after the times, and no words at all
StoredRecords == {StoredWords, SubSeq(StoredWords, 1, 5), <<>>}

NoEvents == EVENTS = <<>> /\ inserted = <<>> /\ drained = <<>>

Idle(market) ==
    /\ NoEvents
    /\ m = market
    /\ pc = "idle"
    /\ op = NoOp
    /\ pre = market
    /\ ret = NoRet
    /\ trades = 0
    /\ withdrawals = 0

Init == \E market \in {TestMarket, DeepMarket} : Idle(market)

InitStored == Idle(Market(from_data(StoredWords)))

InitCreate ==
    /\ NoEvents
    /\ m = NoMarket
    /\ pc = "start"
    /\ op = NoOp
    /\ pre = NoMarket
    /\ ret = NoRet
    /\ trades = 0
    /\ withdrawals = 0

Returned(name, args, call) ==
    /\ pc' = "returned"
    /\ op' = [name |-> name, args |-> args]
    /\ pre' = m
    /\ ret' = call.ret
    /\ m' = call.self
    /\ UNCHANGED <<EVENTS, inserted, drained>>

PlaceBet ==
    /\ pc = "idle"
    /\ trades < MaxTrades
    /\ \E bet_type \in Sides, bet_amount \in BetAmounts :
          \E call \in {place_bet(m, bet_type, bet_amount)} :
             /\ Returned("place_bet", <<bet_type, bet_amount>>, call)
             /\ trades' = IF call.self = m THEN trades ELSE trades + 1
    /\ UNCHANGED withdrawals

SellShares ==
    /\ pc = "idle"
    /\ trades < MaxTrades
    /\ \E sell_type \in Sides, shares_to_sell \in ShareAmounts :
          \E call \in {sell_shares(m, sell_type, shares_to_sell)} :
             /\ Returned("sell_shares", <<sell_type, shares_to_sell>>, call)
             /\ trades' = IF call.self = m THEN trades ELSE trades + 1
    /\ UNCHANGED withdrawals

Resolve ==
    /\ pc = "idle"
    /\ \E outcome \in BOOLEAN :
          Returned("resolve", <<outcome>>, resolve(m, outcome))
    /\ UNCHANGED <<trades, withdrawals>>

WithdrawFees ==
    /\ pc = "idle"
    /\ withdrawals < MaxWithdrawals
    /\ \E amount \in FeeAmounts :
          \E call \in {withdraw_fees(m, amount)} :
             /\ Returned("withdraw_fees", <<amount>>, call)
             /\ withdrawals' = IF call.self = m THEN withdrawals ELSE withdrawals + 1
    /\ UNCHANGED trades

\* the constructor: the host holds the market it returns
New ==
    /\ pc = "start"
    /\ \E title \in Titles, t \in Times, initial_yes_liquidity \in Liquidities,
          initial_no_liquidity \in Liquidities, b \in Bs :
          \E created \in {new_with_title_u64_and_liquidity(title, t[1], t[2], t[3],
                              initial_yes_liquidity, initial_no_liquidity, b)} :
             Returned("new", <<title, t[1], t[2], t[3],
                               initial_yes_liquidity, initial_no_liquidity, b>>,
                      Call(created, IF created.ok THEN created.val ELSE m))
    /\ UNCHANGED <<trades, withdrawals>>

GetYesPrice ==
    /\ pc = "idle"
    /\ Returned("get_yes_price", <<>>, Call(get_yes_price(m), m))
    /\ UNCHANGED <<trades, withdrawals>>

GetNoPrice ==
    /\ pc = "idle"
    /\ Returned("get_no_price", <<>>, Call(get_no_price(m), m))
    /\ UNCHANGED <<trades, withdrawals>>

CalculateFeeSafe ==
    /\ pc \in {"start", "idle"}
    /\ \E amount \in Amounts :
          Returned("calculate_fee_safe", <<amount>>, Call(calculate_fee_safe(amount), m))
    /\ UNCHANGED <<trades, withdrawals>>

CalculateNetAmountSafe ==
    /\ pc \in {"start", "idle"}
    /\ \E bet_amount \in Amounts :
          Returned("calculate_net_amount_safe", <<bet_amount>>,
                   Call(calculate_net_amount_safe(bet_amount), m))
    /\ UNCHANGED <<trades, withdrawals>>

\* the quotes calculate_shares asks for in its search
BuyYesQuote ==
    /\ pc = "idle"
    /\ \E delta_yes \in Deltas :
          Returned("lmsr_buy_yes_quote", <<delta_yes>>,
                   Call(lmsr_buy_yes_quote(m.total_yes_shares, m.total_no_shares,
                                           m.b, delta_yes), m))
    /\ UNCHANGED <<trades, withdrawals>>

BuyNoQuote ==
    /\ pc = "idle"
    /\ \E delta_no \in Deltas :
          Returned("lmsr_buy_no_quote", <<delta_no>>,
                   Call(lmsr_buy_no_quote(m.total_yes_shares, m.total_no_shares,
                                          m.b, delta_no), m))
    /\ UNCHANGED <<trades, withdrawals>>

\* the host serializes the market into an empty vector
ToData ==
    /\ pc = "idle"
    /\ Returned("to_data", <<>>, Call(Ok(to_data(m, <<>>)), m))
    /\ UNCHANGED <<trades, withdrawals>>

CalculatePayout ==
    /\ pc = "idle"
    /\ \E yes_shares \in PayoutShares, no_shares \in PayoutShares :
          Returned("calculate_payout", <<yes_shares, no_shares>>,
                   Call(calculate_payout(m, yes_shares, no_shares), m))
    /\ UNCHANGED <<trades, withdrawals>>

\* the host has taken the Result
Return ==
    /\ pc = "returned"
    /\ pc' = IF m = NoMarket THEN "start" ELSE "idle"
    /\ op' = NoOp
    /\ pre' = m
    /\ ret' = NoRet
    /\ UNCHANGED <<m, trades, withdrawals, EVENTS, inserted, drained>>

Next ==
    \/ PlaceBet \/ SellShares \/ Resolve \/ WithdrawFees
    \/ GetYesPrice \/ GetNoPrice \/ CalculatePayout
    \/ ToData
    \/ Return

Spec == Init /\ [][Next]_vars

SpecStored == InitStored /\ [][Next]_vars

\* the deep market as place_bet(0, 5_000) leaves it: the pool holds collateral
FundedMarket ==
    [DeepMarket EXCEPT !.total_no_shares = N(5999), !.pool_balance = N(4950),
                       !.total_volume = N(5000), !.total_fees_collected = N(50)]

InitFunded == \E market \in {DeepMarket, FundedMarket} : Idle(market)

SpecFunded == InitFunded /\ [][Next]_vars

\* the host loads the market from the store; a panic of from_data ends the
\* process
FromData ==
    /\ pc = "start"
    /\ \E u64data \in StoredRecords :
          \E loaded \in {from_data(u64data)} :
             /\ op' = [name |-> "from_data", args |-> <<u64data>>]
             /\ pre' = m
             /\ IF loaded.panicked
                THEN pc' = "panicked" /\ ret' = NoRet /\ m' = m
                ELSE pc' = "returned" /\ ret' = Ok(Market(loaded)) /\ m' = Market(loaded)
    /\ UNCHANGED <<trades, withdrawals, EVENTS, inserted, drained>>

\* the operands the arithmetic is called with
Operands == {Zero, One, N(2), N(1000), Mul(N(65536), N(65536)),
             Sub(U64_MAX, One), U64_MAX}

\* a call of an arithmetic function: no market is read or written
Applied(name, args, result) ==
    /\ pc = "start"
    /\ Returned(name, args, Call(result, m))
    /\ UNCHANGED <<trades, withdrawals>>

SafeMul ==
    \E a \in Operands, b \in Operands : Applied("safe_mul", <<a, b>>, safe_mul(a, b))

SafeDiv ==
    \E a \in Operands, b \in Operands : Applied("safe_div", <<a, b>>, safe_div(a, b))

SafeSub ==
    \E a \in Operands, b \in Operands : Applied("safe_sub", <<a, b>>, safe_sub(a, b))

SafeAdd ==
    \E a \in Operands, b \in Operands : Applied("safe_add", <<a, b>>, safe_add(a, b))

SafeMulHighPrecision ==
    \E a \in Operands, b \in Operands :
       Applied("safe_mul_high_precision", <<a, b>>, safe_mul_high_precision(a, b))

SafeDivHighPrecision ==
    \E a \in Operands, b \in Operands, c \in Operands :
       Applied("safe_div_high_precision", <<a, b, c>>, safe_div_high_precision(a, b, c))

\* the arguments of the logarithm: below 1.0, 1.0, up to 3.0, and above
LnArguments == {Zero, Sub(FP_SCALE, One), FP_SCALE, N(1500000), N(2210342),
                N(3000000), N(3000001), N(3500000), N(10000000)}

FpLnSeries ==
    \E y_fp \in LnArguments : Applied("fp_ln_series", <<y_fp>>, fp_ln_series(y_fp))

\* the supplies, liquidity parameters and share numbers the LMSR functions
\* are called with
KernelQs     == {Zero, N(2), N(1000), N(5000)}
KernelBs     == {Zero, One, N(10000), N(1000000000)}
KernelShares == {Zero, N(100), N(1000), N(5001), MAX_SHARES}

LmsrCost ==
    \E q_yes \in KernelQs, q_no \in KernelQs, b \in KernelBs :
       Applied("lmsr_cost", <<q_yes, q_no, b>>, lmsr_cost(q_yes, q_no, b))

LmsrPriceYes ==
    \E q_yes \in KernelQs, q_no \in KernelQs, b \in KernelBs :
       Applied("lmsr_price_yes", <<q_yes, q_no, b>>, lmsr_price_yes(q_yes, q_no, b))

LmsrPriceNo ==
    \E q_yes \in KernelQs, q_no \in KernelQs, b \in KernelBs :
       Applied("lmsr_price_no", <<q_yes, q_no, b>>, lmsr_price_no(q_yes, q_no, b))

LmsrBuyYesQuote ==
    \E q_yes \in KernelQs, q_no \in KernelQs, b \in KernelBs, delta_yes \in KernelShares :
       Applied("lmsr_buy_yes_quote", <<q_yes, q_no, b, delta_yes>>,
               lmsr_buy_yes_quote(q_yes, q_no, b, delta_yes))

LmsrBuyNoQuote ==
    \E q_yes \in KernelQs, q_no \in KernelQs, b \in KernelBs, delta_no \in KernelShares :
       Applied("lmsr_buy_no_quote", <<q_yes, q_no, b, delta_no>>,
               lmsr_buy_no_quote(q_yes, q_no, b, delta_no))

LmsrSellYesQuote ==
    \E q_yes \in KernelQs, q_no \in KernelQs, b \in KernelBs, s_yes \in KernelShares :
       Applied("lmsr_sell_yes_quote", <<q_yes, q_no, b, s_yes>>,
               lmsr_sell_yes_quote(q_yes, q_no, b, s_yes))

LmsrSellNoQuote ==
    \E q_yes \in KernelQs, q_no \in KernelQs, b \in KernelBs, s_no \in KernelShares :
       Applied("lmsr_sell_no_quote", <<q_yes, q_no, b, s_no>>,
               lmsr_sell_no_quote(q_yes, q_no, b, s_no))

\* the host calls the arithmetic of math_safe.rs
NextMath ==
    \/ SafeMul \/ SafeDiv \/ SafeSub \/ SafeAdd
    \/ SafeMulHighPrecision \/ SafeDivHighPrecision
    \/ FpLnSeries
    \/ LmsrCost \/ LmsrPriceYes \/ LmsrPriceNo
    \/ LmsrBuyYesQuote \/ LmsrBuyNoQuote \/ LmsrSellYesQuote \/ LmsrSellNoQuote
    \/ Return

SpecMath == InitCreate /\ [][NextMath]_vars

\* the event types, payloads and vectors the event functions are called with
EventTypes == {One, N(3), U64_MAX}
Payloads   == {<<>>, <<N(7)>>, <<N(8), U64_MAX>>}
Vectors    == {<<>>, <<N(42)>>}

\* the header word of the event layout: the low 32 bits of the type above
\* the 32 bits of the payload length
Header(typ, len) == Add(Mul(Mod(typ, TwoTo32), TwoTo32), N(len))

InsertEvent ==
    /\ pc = "start"
    /\ \E typ \in EventTypes, data \in Payloads :
          /\ Len(inserted) + 1 + Len(data) <= MaxEventWords
          /\ EVENTS' = insert_event(EVENTS, typ, data)
          /\ inserted' = (inserted \o <<Header(typ, Len(data))>>) \o data
          /\ op' = [name |-> "insert_event", args |-> <<typ, data>>]
          /\ ret' = Ok(<<>>)
    /\ pc' = "returned"
    /\ pre' = m
    /\ UNCHANGED <<m, trades, withdrawals, drained>>

ClearEvents ==
    /\ pc = "start"
    /\ \E a \in Vectors :
          \E call \in {clear_events(EVENTS, a)} :
             /\ EVENTS' = call.self
             /\ drained' = drained \o SubSeq(call.ret, Len(a) + 1, Len(call.ret))
             /\ op' = [name |-> "clear_events", args |-> <<a>>]
             /\ ret' = Ok(call.ret)
    /\ pc' = "returned"
    /\ pre' = m
    /\ UNCHANGED <<m, trades, withdrawals, inserted>>

\* the core logs events and the host drains them
NextEvents == InsertEvent \/ ClearEvents \/ Return

SpecEvents == InitCreate /\ [][NextEvents]_vars

(***************************************************************************)
(* calculate_shares step by step: the call validates its arguments, then   *)
(* every turn of `while lo < hi` is one step.  While the call runs, op is   *)
(* its frame: the arguments, is_yes_bet, net_amount, lo and hi, lo and hi  *)
(* as they were before the last turn, and the number of turns taken.       *)
(***************************************************************************)
SearchSides   == {Zero, One, N(2)}
SearchAmounts == {Zero, One, N(100), N(5000), N(10000), MAX_BET_AMOUNT}

\* a third market, with b = 10^12
FlatMarket ==
    new_with_title_u64_and_liquidity(<<>>, Zero, N(1000), N(1000),
                                     N(1500), N(1000), Mul(N(1000000), N(1000000))).val

InitSearch == \E market \in {TestMarket, DeepMarket, FlatMarket} : Idle(market)

Frame(bet_type, bet_amount, is_yes_bet, net_amount, lo, hi, lo_before, hi_before, turns) ==
    [name |-> "calculate_shares", args |-> <<bet_type, bet_amount>>,
     is_yes_bet |-> is_yes_bet, net_amount |-> net_amount,
     lo |-> lo, hi |-> hi, lo_before |-> lo_before, hi_before |-> hi_before,
     turns |-> turns]

\* the call up to the loop
CalculateSharesEnter ==
    /\ pc = "idle"
    /\ \E bet_type \in SearchSides, bet_amount \in SearchAmounts :
          \E checked \in {Try(validate_bet_amount(bet_amount), LAMBDA u1 :
                          Try(calculate_fee_safe(bet_amount), LAMBDA fee :
                          Try(safe_sub(bet_amount, fee), LAMBDA net_amount :
                          Try(validate_bet_type(bet_type), LAMBDA is_yes_bet :
                              Ok(<<is_yes_bet, net_amount>>)))))} :
             IF checked.ok
             THEN /\ pc' = "searching"
                  /\ op' = Frame(bet_type, bet_amount, checked.val[1], checked.val[2],
                                 Zero, MAX_SHARES, Zero, MAX_SHARES, 0)
                  /\ ret' = NoRet
             ELSE /\ pc' = "returned"
                  /\ op' = [name |-> "calculate_shares", args |-> <<bet_type, bet_amount>>]
                  /\ ret' = checked
    /\ pre' = m
    /\ UNCHANGED <<m, trades, withdrawals, EVENTS, inserted, drained>>

\* one turn of the loop
CalculateSharesTurn ==
    /\ pc = "searching"
    /\ Lt(op.lo, op.hi)
    /\ \E mid \in {mid_upper(op.lo, op.hi)} :
          \E quote_res \in {IF op.is_yes_bet
                            THEN lmsr_buy_yes_quote(m.total_yes_shares, m.total_no_shares, m.b, mid)
                            ELSE lmsr_buy_no_quote(m.total_yes_shares, m.total_no_shares, m.b, mid)} :
             IF ~quote_res.ok
             THEN /\ pc' = "returned"
                  /\ op' = [op EXCEPT !.turns = @ + 1]
                  /\ ret' = quote_res
             ELSE /\ pc' = "searching"
                  /\ ret' = NoRet
                  /\ op' = IF Le(AsU64(Div(quote_res.val, N(1000000))), op.net_amount)
                           THEN [op EXCEPT !.lo = mid, !.lo_before = op.lo,
                                           !.hi_before = op.hi, !.turns = @ + 1]
                           ELSE [op EXCEPT !.hi = Sub(mid, One), !.lo_before = op.lo,
                                           !.hi_before = op.hi, !.turns = @ + 1]
    /\ UNCHANGED <<m, pre, trades, withdrawals, EVENTS, inserted, drained>>

\* the loop is left: validate_shares(lo)?; Ok(lo)
CalculateSharesExit ==
    /\ pc = "searching"
    /\ ~Lt(op.lo, op.hi)
    /\ pc' = "returned"
    /\ ret' = Try(validate_shares(op.lo), LAMBDA u2 : Ok(op.lo))
    /\ UNCHANGED <<m, op, pre, trades, withdrawals, EVENTS, inserted, drained>>

NextSearch ==
    \/ CalculateSharesEnter \/ CalculateSharesTurn \/ CalculateSharesExit
    \/ Return

SpecSearch == InitSearch /\ [][NextSearch]_vars

\* the host creates the market and queries it
NextCreate ==
    \/ New \/ FromData
    \/ GetYesPrice \/ GetNoPrice
    \/ CalculateFeeSafe \/ CalculateNetAmountSafe
    \/ BuyYesQuote \/ BuyNoQuote
    \/ ToData
    \/ Return

SpecCreate == InitCreate /\ [][NextCreate]_vars

(***************************************************************************)
(* The life of a market the constructor has returned: the host asks        *)
(* whether it is active and whether it can be resolved at the times        *)
(* around its timestamps, trades on it and resolves it.  A bool is         *)
(* returned as Ok(bool).                                                   *)
(***************************************************************************)
CurrentTimes == {Zero, N(999), N(1000), N(1999), N(2000), U64_MAX}

IsActive ==
    /\ pc = "idle"
    /\ \E current_time \in CurrentTimes :
          Returned("is_active", <<current_time>>,
                   Call(Ok(is_active(m, current_time)), m))
    /\ UNCHANGED <<trades, withdrawals>>

CanResolve ==
    /\ pc = "idle"
    /\ \E current_time \in CurrentTimes :
          Returned("can_resolve", <<current_time>>,
                   Call(Ok(can_resolve(m, current_time)), m))
    /\ UNCHANGED <<trades, withdrawals>>

NextLife ==
    \/ New
    \/ IsActive \/ CanResolve
    \/ PlaceBet \/ SellShares \/ Resolve \/ WithdrawFees
    \/ Return

SpecLife == InitCreate /\ [][NextLife]_vars

(***************************************************************************)
(* The claims of the specification, each stated over the call that         *)
(* returned last.                                                          *)
(***************************************************************************)
Called(name) == pc = "returned" /\ op.name = name

Traded == Called("place_bet") \/ Called("sell_shares")

\* fee(x) of the fee policy: the ceiling of x * PLATFORM_FEE_RATE / FEE_BASIS_POINTS
fee(x) ==
    LET product == Mul(x, PLATFORM_FEE_RATE)
    IN IF Mod(product, FEE_BASIS_POINTS) = Zero
       THEN Div(product, FEE_BASIS_POINTS)
       ELSE Add(Div(product, FEE_BASIS_POINTS), One)

Supply(self, side) ==
    IF side = One THEN self.total_yes_shares ELSE self.total_no_shares

\* C1: whenever place_bet, sell_shares, resolve or withdraw_fees returns an
\* Err, every field of the record is as it was before the call.
C1_FailureIsNoOp == (pc = "returned" /\ ~ret.ok) => m = pre

\* C2: in a resolved market every place_bet and every sell_shares fails and
\* leaves the record unchanged; after resolve only withdraw_fees changes it.
C2_ResolvedIsTerminal ==
    /\ (Traded /\ pre.resolved) => (~ret.ok /\ m = pre)
    /\ (pc = "returned" /\ pre.resolved /\ m # pre) => op.name = "withdraw_fees"

\* C3: the first resolve(o) sets resolved and outcome = o and nothing else;
\* a later resolve returns MARKET_ALREADY_RESOLVED and changes nothing; no
\* operation clears resolved or changes the outcome of a resolved market.
C3_ResolveOnce ==
    /\ (Called("resolve") /\ ~pre.resolved) =>
          /\ ret.ok
          /\ m = [pre EXCEPT !.resolved = TRUE, !.outcome = Some(op.args[1])]
    /\ (Called("resolve") /\ pre.resolved) =>
          /\ ret = Err(ERROR_MARKET_ALREADY_RESOLVED)
          /\ m = pre
    /\ (pc = "returned" /\ pre.resolved) =>
          /\ m.resolved
          /\ m.outcome = pre.outcome

\* a second resolve, with the other outcome, has returned
C3_Witness ==
    /\ Called("resolve")
    /\ pre.resolved
    /\ pre.outcome # Some(op.args[1])

\* C4: a successful place_bet(side, amt) returns calculate_shares(side, amt)
\* of the record before it, adds amt - fee(amt) to the pool, fee(amt) to the
\* fees, amt to the volume and the minted shares to the supply of the side,
\* and changes no other field.
C4_PlaceBetEffects ==
    (Called("place_bet") /\ ret.ok) =>
        LET side   == op.args[1]
            amt    == op.args[2]
            shares == calculate_shares(pre, side, amt)
        IN /\ side \in {Zero, One}
           /\ shares = Ok(ret.val)
           /\ m = [pre EXCEPT
                     !.total_yes_shares = IF side = One THEN Add(@, ret.val) ELSE @,
                     !.total_no_shares = IF side = Zero THEN Add(@, ret.val) ELSE @,
                     !.pool_balance = Add(@, Sub(amt, fee(amt))),
                     !.total_fees_collected = Add(@, fee(amt)),
                     !.total_volume = Add(@, amt)]

\* a NO bet has succeeded on a market that has traded before
C4_Witness ==
    /\ Called("place_bet")
    /\ ret.ok
    /\ op.args[1] = Zero
    /\ Gt(pre.pool_balance, Zero)
    /\ Gt(ret.val, Zero)

\* C5: a successful sell_shares(side, s) returns the payout of
\* calculate_sell_details(side, s) on the record before it, which is positive
\* and at most the pool; it takes s from the supply of the side and the
\* payout from the pool, adds the fee to the fees and payout + fee to the
\* volume, and changes no other field.
C5_SellSharesEffects ==
    (Called("sell_shares") /\ ret.ok) =>
        LET side    == op.args[1]
            s       == op.args[2]
            details == calculate_sell_details(pre, side, s)
        IN /\ side \in {Zero, One}
           /\ details.ok
           /\ ret.val = details.val[1]
           /\ Gt(ret.val, Zero)
           /\ Le(ret.val, pre.pool_balance)
           /\ Le(s, Supply(pre, side))
           /\ m = [pre EXCEPT
                     !.total_yes_shares = IF side = One THEN Sub(@, s) ELSE @,
                     !.total_no_shares = IF side = Zero THEN Sub(@, s) ELSE @,
                     !.pool_balance = Sub(@, ret.val),
                     !.total_fees_collected = Add(@, details.val[2]),
                     !.total_volume = Add(@, Add(ret.val, details.val[2]))]

\* a sale has succeeded and has paid a fee
C5_Witness ==
    /\ Called("sell_shares")
    /\ ret.ok
    /\ Gt(m.total_fees_collected, pre.total_fees_collected)
    /\ Lt(m.pool_balance, pre.pool_balance)

\* C6: pool_balance + total_fees_collected grows by amt with a successful
\* place_bet of amt and shrinks by the payout with a successful sell_shares.
C6_SumConservation ==
    /\ (Called("place_bet") /\ ret.ok) =>
          Add(m.pool_balance, m.total_fees_collected)
            = Add(Add(pre.pool_balance, pre.total_fees_collected), op.args[2])
    /\ (Called("sell_shares") /\ ret.ok) =>
          Add(Add(m.pool_balance, m.total_fees_collected), ret.val)
            = Add(pre.pool_balance, pre.total_fees_collected)

\* C7: on the fresh market (1000, 1000, b = 10000) calculate_shares(YES, 10000)
\* and place_bet(YES, 10000) return Ok of a positive share amount, and after
\* the bet the YES price is above 500000.
C7_FreshMarketBuys ==
    /\ LET shares == calculate_shares(TestMarket, One, N(10000))
       IN shares.ok /\ Gt(shares.val, Zero)
    /\ (Called("place_bet") /\ pre = TestMarket /\ op.args = <<One, N(10000)>>) =>
          /\ ret.ok
          /\ Gt(ret.val, Zero)
          /\ LET price == get_yes_price(m)
             IN price.ok /\ Gt(price.val, N(500000))

\* the buy quote of delta shares of a side computes and, floored to tokens,
\* is at most net
Affordable(self, side, delta, net) ==
    LET quote == IF side = One
                 THEN lmsr_buy_yes_quote(self.total_yes_shares, self.total_no_shares,
                                         self.b, delta)
                 ELSE lmsr_buy_no_quote(self.total_yes_shares, self.total_no_shares,
                                        self.b, delta)
    IN quote.ok /\ Le(Div(quote.val, FP_SCALE), net)

\* C8: for every market, side in {0, 1} and 0 < amt <= MAX_BET_AMOUNT,
\* calculate_shares(side, amt) returns Ok of the largest share amount in
\* [1, MAX_SHARES] whose floored buy quote is at most amt - fee(amt), or
\* INVALID_BET_AMOUNT when no positive share amount is affordable.
C8_LargestAffordable ==
    pc = "idle" =>
        \A side \in {Zero, One} :
        \A amt \in {a \in BetAmounts : Gt(a, Zero) /\ Le(a, MAX_BET_AMOUNT)} :
            LET shares == calculate_shares(m, side, amt)
                net    == Sub(amt, fee(amt))
            IN \/ /\ shares.ok
                  /\ Gt(shares.val, Zero)
                  /\ Le(shares.val, MAX_SHARES)
                  /\ Affordable(m, side, shares.val, net)
                  /\ \/ shares.val = MAX_SHARES
                     \/ ~Affordable(m, side, Add(shares.val, One), net)
               \/ /\ shares = Err(ERROR_INVALID_BET_AMOUNT)
                  /\ ~Affordable(m, side, One, net)

\* C9: with a side other than 0 and 1, place_bet, sell_shares,
\* calculate_shares and calculate_sell_details return INVALID_BET_TYPE
\* whatever the amount, and the market is unchanged.
C9_InvalidSide ==
    /\ (Traded /\ op.args[1] \notin {Zero, One}) =>
          (ret = Err(ERROR_INVALID_BET_TYPE) /\ m = pre)
    /\ pc = "idle" =>
          \A side \in Sides \ {Zero, One} :
             /\ \A amt \in BetAmounts :
                   calculate_shares(m, side, amt) = Err(ERROR_INVALID_BET_TYPE)
             /\ \A s \in ShareAmounts :
                   calculate_sell_details(m, side, s) = Err(ERROR_INVALID_BET_TYPE)

\* C10: sell_shares(side, s) with side in {0, 1} returns INSUFFICIENT_BALANCE
\* when s exceeds the supply of the side and when the computed net payout
\* exceeds the pool; the record is unchanged in both cases.
C10_InsufficientBalance ==
    (Called("sell_shares") /\ op.args[1] \in {Zero, One}) =>
        LET side    == op.args[1]
            s       == op.args[2]
            details == calculate_sell_details(pre, side, s)
        IN /\ Gt(s, Supply(pre, side)) =>
                 (ret = Err(ERROR_INSUFFICIENT_BALANCE) /\ m = pre)
           /\ (Le(s, Supply(pre, side)) /\ details.ok
                 /\ Gt(details.val[1], pre.pool_balance)) =>
                 (ret = Err(ERROR_INSUFFICIENT_BALANCE) /\ m = pre)

\* a sale within the supply was refused because its payout exceeds the pool
C10_Witness ==
    /\ Called("sell_shares")
    /\ op.args[1] \in {Zero, One}
    /\ Le(op.args[2], Supply(pre, op.args[1]))
    /\ LET details == calculate_sell_details(pre, op.args[1], op.args[2])
       IN details.ok /\ Gt(details.val[1], pre.pool_balance)
    /\ ret = Err(ERROR_INSUFFICIENT_BALANCE)

\* floor(shares * pool_balance / supply), the pro-rata share of the pool
ProRata(self, shares, supply) == Div(Mul(shares, self.pool_balance), supply)

\* the value the payout rule of the specification gives for (y, n)
PayoutRule(self, y, n) ==
    IF self.resolved /\ self.outcome = OutcomeYes /\ Gt(self.total_yes_shares, Zero)
    THEN ProRata(self, y, self.total_yes_shares)
    ELSE IF self.resolved /\ self.outcome = OutcomeNo /\ Gt(self.total_no_shares, Zero)
    THEN ProRata(self, n, self.total_no_shares)
    ELSE Zero

\* C11 as stated: calculate_payout(y, n) changes nothing and returns Ok of
\* floor(y * pool / total_yes) when YES has won, of floor(n * pool / total_no)
\* when NO has won, and Ok(0) in every other case.
C11_PayoutFormula ==
    Called("calculate_payout") =>
        /\ m = pre
        /\ ret = Ok(PayoutRule(pre, op.args[1], op.args[2]))

\* C11 amended: as C11, where the pro-rata value fits in a u64; where it does
\* not, calculate_payout returns OVERFLOW.
C11_PayoutFormulaInU64 ==
    Called("calculate_payout") =>
        LET payout == PayoutRule(pre, op.args[1], op.args[2])
        IN /\ m = pre
           /\ ret = IF Le(payout, U64_MAX) THEN Ok(payout) ELSE Err(ERROR_OVERFLOW)

\* YES has won and a holder of shares of both sides is paid for the YES
\* shares only
C11_Witness ==
    /\ Called("calculate_payout")
    /\ pre.outcome = OutcomeYes
    /\ op.args = <<N(4999), N(4999)>>
    /\ ret.ok
    /\ Gt(ret.val, Zero)
    /\ ret.val = ProRata(pre, N(4999), pre.total_yes_shares)

\* C12 as stated: on every market the two prices are computed and
\* get_yes_price() + get_no_price() is exactly FP_SCALE.
C12_PricesSumToScale ==
    Called("get_no_price") =>
        LET p_yes == get_yes_price(pre)
        IN /\ p_yes.ok
           /\ ret.ok
           /\ Add(p_yes.val, ret.val) = FP_SCALE

\* C12 amended: whenever get_yes_price() is computed, so is get_no_price(),
\* p_yes <= FP_SCALE and the two add up to exactly FP_SCALE; when it is not,
\* get_no_price() fails with the same error, never with UNDERFLOW.
C12_PricesSumWhenComputed ==
    Called("get_no_price") =>
        LET p_yes == get_yes_price(pre)
        IN /\ m = pre
           /\ IF p_yes.ok
              THEN /\ Le(p_yes.val, FP_SCALE)
                   /\ ret = Ok(Sub(FP_SCALE, p_yes.val))
                   /\ Add(p_yes.val, ret.val) = FP_SCALE
              ELSE ret = p_yes /\ ret.err # ERROR_UNDERFLOW

\* the NO price of a market with unequal supplies is computed
C12_Witness ==
    /\ Called("get_no_price")
    /\ pre.total_yes_shares # pre.total_no_shares
    /\ ret.ok
    /\ ret.val # N(500000)

\* the arguments the constructor accepts
ValidLiquidity(liquidity) == Ge(liquidity, MIN_LIQUIDITY) /\ Le(liquidity, MAX_LIQUIDITY)

ValidNew(title, start, end, resolution, yes_liquidity, no_liquidity, b) ==
    /\ Len(title) <= 8
    /\ Lt(start, end) /\ Le(end, resolution)
    /\ ValidLiquidity(yes_liquidity) /\ ValidLiquidity(no_liquidity)
    /\ Gt(b, Zero)

\* C13: the constructor returns a market exactly when title length <= 8,
\* start < end <= resolution, both liquidities are in
\* [MIN_LIQUIDITY, MAX_LIQUIDITY] and b > 0.  The market it returns has the
\* seeded liquidities as supplies, pool_balance = total_volume =
\* total_fees_collected = 0, resolved = false and no outcome.  Otherwise it
\* returns INVALID_MARKET_TITLE, INVALID_MARKET_TIME, INVALID_CALCULATION or
\* LIQUIDITY_TOO_HIGH, each only for arguments that have the matching defect.
C13_Constructor ==
    Called("new") =>
        LET title == op.args[1]
            start == op.args[2]
            end   == op.args[3]
            resolution == op.args[4]
            yes_liquidity == op.args[5]
            no_liquidity  == op.args[6]
            b == op.args[7]
        IN /\ ret.ok <=> ValidNew(title, start, end, resolution,
                                  yes_liquidity, no_liquidity, b)
           /\ ret.ok =>
                /\ m = ret.val
                /\ m.title = title
                /\ m.start_time = start /\ m.end_time = end
                /\ m.resolution_time = resolution
                /\ m.total_yes_shares = yes_liquidity
                /\ m.total_no_shares = no_liquidity
                /\ m.b = b
                /\ m.pool_balance = Zero /\ m.total_volume = Zero
                /\ m.total_fees_collected = Zero
                /\ m.resolved = FALSE /\ m.outcome = OutcomeNone
           /\ ~ret.ok =>
                /\ m = pre
                /\ ret.err \in {ERROR_INVALID_MARKET_TITLE, ERROR_INVALID_MARKET_TIME,
                                ERROR_INVALID_CALCULATION, ERROR_LIQUIDITY_TOO_HIGH}
                /\ ret.err = ERROR_INVALID_MARKET_TITLE => Len(title) > 8
                /\ ret.err = ERROR_INVALID_MARKET_TIME =>
                      Ge(start, end) \/ Gt(end, resolution)
                /\ ret.err = ERROR_INVALID_CALCULATION =>
                      \/ Lt(yes_liquidity, MIN_LIQUIDITY)
                      \/ Lt(no_liquidity, MIN_LIQUIDITY)
                      \/ b = Zero
                /\ ret.err = ERROR_LIQUIDITY_TOO_HIGH =>
                      \/ Gt(yes_liquidity, MAX_LIQUIDITY)
                      \/ Gt(no_liquidity, MAX_LIQUIDITY)

\* a market is created with end_time = resolution_time, MIN_LIQUIDITY on
\* one side and MAX_LIQUIDITY on the other
C13_Witness ==
    /\ Called("new")
    /\ ret.ok
    /\ op.args[3] = op.args[4]
    /\ m.total_no_shares = MAX_LIQUIDITY
    /\ m.total_yes_shares = MIN_LIQUIDITY

\* C14: in every state reached from the constructor by place_bet,
\* sell_shares, resolve and withdraw_fees calls, successful or failing, the
\* outcome is defined (YES wins or NO wins) if and only if resolved is true.
C14_OutcomeIffResolved ==
    /\ m.resolved <=> m.outcome \in {OutcomeYes, OutcomeNo}
    /\ ~m.resolved <=> m.outcome = OutcomeNone

\* a market that was traded on is resolved for NO, and a call has failed on
\* it since
C14_Witness ==
    /\ m.resolved
    /\ m.outcome = OutcomeNo
    /\ Gt(m.pool_balance, Zero)
    /\ pc = "returned"
    /\ op.name \in {"place_bet", "sell_shares", "resolve", "withdraw_fees"}
    /\ ~ret.ok

\* C15: withdraw_fees(amt) succeeds exactly when 0 < amt <=
\* total_fees_collected, whether or not the market is resolved; it then
\* returns amt, takes exactly amt off total_fees_collected and leaves every
\* other field as it was; otherwise it returns an error and changes nothing.
C15_WithdrawFees ==
    Called("withdraw_fees") =>
        LET amt == op.args[1]
        IN IF Gt(amt, Zero) /\ Le(amt, pre.total_fees_collected)
           THEN /\ ret = Ok(amt)
                /\ m = [pre EXCEPT !.total_fees_collected =
                                       Sub(pre.total_fees_collected, amt)]
                /\ Add(m.total_fees_collected, amt) = pre.total_fees_collected
           ELSE /\ ~ret.ok
                /\ m = pre

\* the whole fee vault of a resolved market is withdrawn
C15_Witness ==
    /\ Called("withdraw_fees")
    /\ pre.resolved
    /\ ret.ok
    /\ Gt(ret.val, Zero)
    /\ m.total_fees_collected = Zero
    /\ Gt(m.pool_balance, Zero)

\* a withdrawal of more than the vault holds fails
C15_WitnessTooMuch ==
    /\ Called("withdraw_fees")
    /\ Gt(op.args[1], pre.total_fees_collected)
    /\ Gt(pre.total_fees_collected, Zero)
    /\ ~ret.ok

\* C16: for 0 <= x <= MAX_BET_AMOUNT calculate_fee_safe(x) is
\* ceil(x * 100 / 10_000): at least 1 for x > 0, at most x, with
\* fee(1) = fee(50) = fee(99) = 1, fee(1_960) = 20 and fee(10_000) = 100, and
\* calculate_net_amount_safe(x) is x - fee(x) and does not underflow; for
\* x > MAX_BET_AMOUNT both functions return BET_TOO_LARGE.
C16_FeeIsCeiling ==
    /\ Called("calculate_fee_safe") =>
          LET x == op.args[1]
          IN IF Le(x, MAX_BET_AMOUNT)
             THEN /\ ret = Ok(fee(x))
                  /\ Gt(x, Zero) => Ge(ret.val, One)
                  /\ Le(ret.val, x)
                  /\ x \in {One, N(50), N(99)} => ret.val = One
                  /\ x = N(1960) => ret.val = N(20)
                  /\ x = N(10000) => ret.val = N(100)
             ELSE ret = Err(ERROR_BET_TOO_LARGE)
    /\ Called("calculate_net_amount_safe") =>
          LET x == op.args[1]
          IN IF Le(x, MAX_BET_AMOUNT)
             THEN /\ ret = Ok(Sub(x, fee(x)))
                  /\ Add(ret.val, fee(x)) = x
             ELSE ret = Err(ERROR_BET_TOO_LARGE)

\* the fee of 1_960 is 20, rounded up from 19.6
C16_Witness ==
    /\ Called("calculate_fee_safe")
    /\ op.args = <<N(1960)>>
    /\ ret = Ok(N(20))

\* the words of a market in the order of the storage layout
Layout(self) ==
    <<N(Len(self.title))>> \o self.title \o
    << self.start_time, self.end_time, self.resolution_time,
       self.total_yes_shares, self.total_no_shares, self.b,
       self.pool_balance, self.total_volume >> \o
    << IF self.resolved THEN One ELSE Zero,
       CASE self.outcome = OutcomeNone -> Zero
         [] self.outcome = OutcomeNo   -> One
         [] self.outcome = OutcomeYes  -> N(2),
       self.total_fees_collected >>

\* C17: for every market m reached from the constructor, to_data(m) is the
\* words [title_len, title words, start_time, end_time, resolution_time,
\* total_yes_shares, total_no_shares, b, pool_balance, total_volume,
\* resolved 0|1, outcome 0|1|2, total_fees_collected], and from_data of these
\* words is m, field for field.
C17_RoundTrip ==
    Called("to_data") =>
        /\ m = pre
        /\ ret.val = Layout(pre)
        /\ ~from_data(ret.val).panicked
        /\ Market(from_data(ret.val)) = pre
        /\ \A f \in DOMAIN pre : from_data(ret.val)[f] = pre[f]

\* a titled market that was traded on and resolved for YES is serialized
C17_Witness ==
    /\ Called("to_data")
    /\ pre.resolved
    /\ pre.outcome = OutcomeYes
    /\ Len(pre.title) > 0
    /\ Gt(pre.pool_balance, Zero)
    /\ Gt(pre.total_fees_collected, Zero)
    /\ Len(ret.val) = 12 + Len(pre.title)

\* C18: on a market the constructor accepts, whenever the buy quotes of
\* delta < delta' <= MAX_SHARES are both computed, the quote of delta is
\* strictly below the quote of delta', for YES and for NO.
C18_BuyQuoteStrictlyIncreasing ==
    /\ (Called("lmsr_buy_yes_quote") /\ ret.ok) =>
          \A delta \in Deltas :
             LET quote == lmsr_buy_yes_quote(pre.total_yes_shares, pre.total_no_shares,
                                             pre.b, delta)
             IN (Lt(delta, op.args[1]) /\ quote.ok) => Lt(quote.val, ret.val)
    /\ (Called("lmsr_buy_no_quote") /\ ret.ok) =>
          \A delta \in Deltas :
             LET quote == lmsr_buy_no_quote(pre.total_yes_shares, pre.total_no_shares,
                                            pre.b, delta)
             IN (Lt(delta, op.args[1]) /\ quote.ok) => Lt(quote.val, ret.val)

\* C19: whenever total_yes_shares = total_no_shares and the price is
\* computed, get_yes_price() and get_no_price() are both exactly 500_000.
C19_SymmetricPrices ==
    (/\ Called("get_yes_price") \/ Called("get_no_price")
     /\ pre.total_yes_shares = pre.total_no_shares
     /\ ret.ok)
    => /\ ret.val = N(500000)
       /\ get_yes_price(pre) = Ok(N(500000))
       /\ get_no_price(pre) = Ok(N(500000))

\* the YES price of the fresh market q_yes = q_no = 1_000, b = 10_000 is
\* computed
C19_Witness ==
    /\ Called("get_yes_price")
    /\ pre.total_yes_shares = N(1000)
    /\ pre.total_no_shares = N(1000)
    /\ pre.b = N(10000)
    /\ ret = Ok(N(500000))

InU64(value, error) == IF Le(value, U64_MAX) THEN Ok(value) ELSE Err(error)

\* C21: safe_div_high_precision(a, b, c) returns DIVISION_BY_ZERO exactly
\* when c = 0; otherwise it returns floor(a * b / c) when that fits in 64
\* bits (0 when b = 0) and OVERFLOW when it does not.
C21_DivHighPrecision ==
    Called("safe_div_high_precision") =>
        LET a == op.args[1]
            b == op.args[2]
            c == op.args[3]
        IN ret = IF c = Zero THEN Err(ERROR_DIVISION_BY_ZERO)
                 ELSE InU64(Div(Mul(a, b), c), ERROR_OVERFLOW)

\* C22: safe_add(a, b) is a + b when that fits in a u64 and OVERFLOW
\* otherwise; safe_sub(a, b) is a - b when a >= b and UNDERFLOW otherwise;
\* safe_mul(a, b) and safe_mul_high_precision(a, b) are a * b when that fits
\* and OVERFLOW otherwise; safe_div(a, b) is floor(a / b) when b # 0 and
\* DIVISION_BY_ZERO otherwise.
C22_CheckedPrimitives ==
    /\ Called("safe_add") =>
          ret = InU64(Add(op.args[1], op.args[2]), ERROR_OVERFLOW)
    /\ Called("safe_sub") =>
          ret = IF Ge(op.args[1], op.args[2])
                THEN Ok(Sub(op.args[1], op.args[2]))
                ELSE Err(ERROR_UNDERFLOW)
    /\ (Called("safe_sub") /\ ret.ok) => Add(ret.val, op.args[2]) = op.args[1]
    /\ (Called("safe_mul") \/ Called("safe_mul_high_precision")) =>
          ret = InU64(Mul(op.args[1], op.args[2]), ERROR_OVERFLOW)
    /\ Called("safe_div") =>
          ret = IF op.args[2] = Zero THEN Err(ERROR_DIVISION_BY_ZERO)
                ELSE Ok(Div(op.args[1], op.args[2]))
    /\ (Called("safe_div") /\ ret.ok) =>
          LET remainder == Sub(op.args[1], Mul(ret.val, op.args[2]))
          IN Lt(remainder, op.args[2])

\* safe_add(u64::MAX, 1) has returned OVERFLOW
C22_Witness ==
    /\ Called("safe_add")
    /\ op.args = <<U64_MAX, One>>
    /\ ret = Err(ERROR_OVERFLOW)

\* C23: no operation panics or aborts: every call, from_data on a word
\* sequence shorter than the layout included, returns a value or an error.
C23_NeverPanics ==
    /\ pc # "panicked"
    /\ pc = "returned" => ret.ok \in BOOLEAN

\* C24: the event buffer is an append-only log.  The words the host has
\* drained, followed by the words still buffered, are the words logged, in
\* order and each once: a header (typ << 32) | len(data) and the payload per
\* event.  clear_events(a) returns a followed by the buffered words and
\* leaves the buffer empty.
C24_EventLog ==
    /\ drained \o EVENTS = inserted
    /\ Called("clear_events") =>
          /\ EVENTS = <<>>
          /\ SubSeq(ret.val, 1, Len(op.args[1])) = op.args[1]
          /\ ret.val = op.args[1] \o SubSeq(ret.val, Len(op.args[1]) + 1, Len(ret.val))
          /\ Len(ret.val) <= Len(op.args[1]) + Len(drained)
          /\ SubSeq(drained, Len(drained) - (Len(ret.val) - Len(op.args[1])) + 1,
                    Len(drained))
               = SubSeq(ret.val, Len(op.args[1]) + 1, Len(ret.val))
    /\ Called("insert_event") =>
          LET data == op.args[2]
              n    == Len(EVENTS)
          IN /\ n >= 1 + Len(data)
             /\ EVENTS[n - Len(data)] = Header(op.args[1], Len(data))
             /\ SubSeq(EVENTS, n - Len(data) + 1, n) = data

\* a second drain hands out an event that was logged after the first drain,
\* behind the vector passed in
C24_Witness ==
    /\ Called("clear_events")
    /\ op.args[1] = <<N(42)>>
    /\ Len(ret.val) = 3
    /\ Len(drained) = 5
    /\ EVENTS = <<>>

\* C25: the search of calculate_shares terminates.  It starts with lo = 0 and
\* hi = MAX_SHARES; every turn keeps lo <= hi and strictly shrinks hi - lo;
\* it takes at most 30 turns, that is 30 buy quotes; and when the loop is
\* left, lo = hi.  The call returns what calculate_shares returns.
C25_SearchTerminates ==
    /\ pc = "searching" =>
          /\ Le(op.lo, op.hi)
          /\ Le(op.hi, MAX_SHARES)
          /\ op.turns <= 30
          /\ op.turns = 0 => op.lo = Zero /\ op.hi = MAX_SHARES
          /\ op.turns > 0 =>
                /\ Lt(Sub(op.hi, op.lo), Sub(op.hi_before, op.lo_before))
                /\ Le(op.lo_before, op.lo) /\ Le(op.hi, op.hi_before)
          /\ op.turns = 30 => op.lo = op.hi
    /\ (Called("calculate_shares") /\ "turns" \in DOMAIN op) =>
          /\ op.turns <= 30
          /\ ret.ok => op.lo = op.hi
          /\ ret = calculate_shares(pre, op.args[1], op.args[2])

\* a search has come to its end after 30 turns and returned the shares
C25_Witness ==
    /\ Called("calculate_shares")
    /\ "turns" \in DOMAIN op
    /\ op.turns = 30
    /\ ret.ok
    /\ Gt(ret.val, Zero)
    /\ ret.val = op.lo

\* (y-1) - (y-1)^2/2 + (y-1)^3/3 in fixed point, each term rounded down
LnSeries(y) ==
    LET z  == Sub(y, FP_SCALE)
        z2 == Div(Mul(z, z), FP_SCALE)
        z3 == Div(Mul(z2, z), FP_SCALE)
    IN Sub(Add(z, Div(z3, N(3))), Div(z2, N(2)))

\* C26: for every y >= FP_SCALE (the 128-bit intermediates of the model's
\* arguments do not overflow) fp_ln_series(y) returns
\* (y-1) - (y-1)^2/2 + (y-1)^3/3, also for y above 3 * FP_SCALE, and it
\* returns INVALID_CALCULATION only for y < FP_SCALE.
C26_LnOnWholeDomain ==
    Called("fp_ln_series") =>
        LET y == op.args[1]
        IN ret = IF Lt(y, FP_SCALE) THEN Err(ERROR_INVALID_CALCULATION)
                 ELSE Ok(LnSeries(y))

\* a call of one of the LMSR functions that take (q_yes, q_no, b, ...)
CalledKernel(names) == pc = "returned" /\ op.name \in names /\ Len(op.args) >= 3

\* C27: lmsr_cost, the prices and the buy quotes return INVALID_CALCULATION
\* whenever b = 0; a sell quote returns INVALID_BET_AMOUNT whenever the
\* shares exceed the supply of the side, for every b; and for shares within
\* the supply and b > 0 a sell quote is C(q) - C(q - s) >= 0 and never fails
\* with UNDERFLOW.
C27_KernelFailureModes ==
    /\ (/\ CalledKernel({"lmsr_cost", "lmsr_price_yes", "lmsr_price_no",
                         "lmsr_buy_yes_quote", "lmsr_buy_no_quote"})
        /\ op.args[3] = Zero)
       => ret = Err(ERROR_INVALID_CALCULATION)
    /\ (CalledKernel({"lmsr_sell_yes_quote"}) /\ Gt(op.args[4], op.args[1]))
       => ret = Err(ERROR_INVALID_BET_AMOUNT)
    /\ (CalledKernel({"lmsr_sell_no_quote"}) /\ Gt(op.args[4], op.args[2]))
       => ret = Err(ERROR_INVALID_BET_AMOUNT)
    /\ (/\ CalledKernel({"lmsr_sell_yes_quote"})
        /\ Le(op.args[4], op.args[1])
        /\ Gt(op.args[3], Zero))
       => /\ ret # Err(ERROR_UNDERFLOW)
          /\ ret.ok =>
                LET c_before == lmsr_cost(op.args[1], op.args[2], op.args[3])
                    c_after  == lmsr_cost(Sub(op.args[1], op.args[4]), op.args[2], op.args[3])
                IN Ge(c_before.val, c_after.val) /\ ret.val = Sub(c_before.val, c_after.val)
    /\ (/\ CalledKernel({"lmsr_sell_no_quote"})
        /\ Le(op.args[4], op.args[2])
        /\ Gt(op.args[3], Zero))
       => /\ ret # Err(ERROR_UNDERFLOW)
          /\ ret.ok =>
                LET c_before == lmsr_cost(op.args[1], op.args[2], op.args[3])
                    c_after  == lmsr_cost(op.args[1], Sub(op.args[2], op.args[4]), op.args[3])
                IN Ge(c_before.val, c_after.val) /\ ret.val = Sub(c_before.val, c_after.val)

\* the market as the constructor returned it: the title tells the two apart
Seeded == CHOOSE market \in {TestMarket, DeepMarket} : market.title = m.title

\* C28: after any sequence of place_bet and sell_shares calls each supply is
\* at least the liquidity the market was seeded with: sell_shares never burns
\* more shares of a side than place_bet has minted on it.
C28_SeedNotRedeemable ==
    /\ Ge(m.total_yes_shares, Seeded.total_yes_shares)
    /\ Ge(m.total_no_shares, Seeded.total_no_shares)

\* the sell quote that takes back what the buy quote of the call has minted
SellBack ==
    IF op.name = "lmsr_buy_yes_quote"
    THEN lmsr_sell_yes_quote(Add(op.args[1], op.args[4]), op.args[2], op.args[3], op.args[4])
    ELSE lmsr_sell_no_quote(op.args[1], Add(op.args[2], op.args[4]), op.args[3], op.args[4])

\* a buy quote with b > 0 (q + delta fits in a u64 for every argument of the
\* model)
BuyQuoted ==
    /\ CalledKernel({"lmsr_buy_yes_quote", "lmsr_buy_no_quote"})
    /\ Len(op.args) = 4
    /\ Gt(op.args[3], Zero)

Unbet(self, side, amt, delta) ==
    [self EXCEPT
        !.total_yes_shares = IF side = One THEN Sub(@, delta) ELSE @,
        !.total_no_shares = IF side = One THEN @ ELSE Sub(@, delta),
        !.pool_balance = Sub(@, Sub(amt, fee(amt))),
        !.total_volume = Sub(@, amt),
        !.total_fees_collected = Sub(@, fee(amt))]

\* the records the pair may have started from: a market as the host has set
\* it up, or the record that the bookkeeping of place_bet leads from to self
Befores(self, side, amt, delta) ==
    {TestMarket, DeepMarket, FundedMarket}
    \cup IF /\ Ge(Supply(self, side), delta)
            /\ Ge(self.pool_balance, Sub(amt, fee(amt)))
            /\ Ge(self.total_volume, amt)
            /\ Ge(self.total_fees_collected, fee(amt))
         THEN {Unbet(self, side, amt, delta)}
         ELSE {}

\* sell_shares(side, delta) has succeeded on the record that a successful
\* place_bet(side, amt) on the record before, minting delta, has left
RoundTrip(before, amt) ==
    /\ Called("sell_shares")
    /\ ret.ok
    /\ place_bet(before, op.args[1], amt) = Call(Ok(op.args[2]), pre)

\* C30: no round-trip profit.  If place_bet(side, amt) succeeds minting delta
\* and is immediately followed by a successful sell_shares(side, delta), the
\* payout returned is strictly less than amt, at most amt - fee(amt), and
\* pool_balance after the pair is not lower than before the pair.
C30_NoRoundTripProfit ==
    (Called("sell_shares") /\ ret.ok) =>
       \A amt \in BetAmounts :
          \A before \in Befores(pre, op.args[1], amt, op.args[2]) :
             RoundTrip(before, amt) =>
                /\ Lt(ret.val, amt)
                /\ Le(ret.val, Sub(amt, fee(amt)))
                /\ Ge(m.pool_balance, before.pool_balance)

\* 5_000 were bet on the market whose pool held 4_950, the 4_999 shares
\* minted were sold at once, and the payout left more in the pool than it
\* held
C30_Witness ==
    /\ RoundTrip(FundedMarket, N(5000))
    /\ op.args[2] = N(4999)
    /\ Gt(ret.val, Zero)
    /\ Lt(ret.val, N(4950))
    /\ Gt(m.pool_balance, N(4950))

\* holdings of a side with the given supply: none, one share, a third, all
Holdings(supply) == {h \in {Zero, One, Div(supply, N(3)), supply} : Le(h, supply)}

\* three holders own the whole supply of both sides: the first two hold
\* (y1, n1) and (y2, n2), the third holds the rest
Splits(self) ==
    {h \in Holdings(self.total_yes_shares) \X Holdings(self.total_yes_shares)
           \X Holdings(self.total_no_shares) \X Holdings(self.total_no_shares) :
        /\ Le(Add(h[1], h[2]), self.total_yes_shares)
        /\ Le(Add(h[3], h[4]), self.total_no_shares)}

\* C31: redemption cannot exceed the pool.  In every resolved state
\* calculate_payout(y, n) succeeds with a result <= pool_balance for every
\* holding y <= total_yes_shares, n <= total_no_shares, and when holders
\* split the whole supply the sum of their payouts is <= pool_balance.
C31_RedemptionWithinPool ==
    /\ (/\ Called("calculate_payout")
        /\ pre.resolved
        /\ Le(op.args[1], pre.total_yes_shares)
        /\ Le(op.args[2], pre.total_no_shares))
       => ret.ok /\ Le(ret.val, pre.pool_balance)
    /\ m.resolved =>
          \A h \in Splits(m) :
             LET first  == calculate_payout(m, h[1], h[3])
                 second == calculate_payout(m, h[2], h[4])
                 third  == calculate_payout(m,
                              Sub(m.total_yes_shares, Add(h[1], h[2])),
                              Sub(m.total_no_shares, Add(h[3], h[4])))
             IN /\ first.ok /\ second.ok /\ third.ok
                /\ Le(first.val, m.pool_balance)
                /\ Le(Add(first.val, Add(second.val, third.val)), m.pool_balance)

\* NO has won on a funded pool: a holder of 4_999 of the NO shares is paid
\* less than the pool, and the holders of a third, a third and the rest of
\* the NO supply are paid the pool but for the rounding
C31_Witness ==
    /\ Called("calculate_payout")
    /\ pre.resolved
    /\ pre.outcome = OutcomeNo
    /\ op.args = <<Zero, N(4999)>>
    /\ Lt(N(4999), pre.total_no_shares)
    /\ ret.ok
    /\ Gt(ret.val, Zero)
    /\ Lt(ret.val, pre.pool_balance)
    /\ LET third == Div(pre.total_no_shares, N(3))
           rest  == Sub(pre.total_no_shares, Add(third, third))
           paid  == Add(calculate_payout(pre, Zero, third).val,
                        Add(calculate_payout(pre, Zero, third).val,
                            calculate_payout(pre, Zero, rest).val))
       IN Lt(paid, pre.pool_balance) /\ Ge(Add(paid, N(3)), pre.pool_balance)

\* C32: on a market the constructor has accepted (start_time < end_time <=
\* resolution_time), in every state reached from it, there is no time t at
\* which is_active(t) and can_resolve(t) both hold, and once the market is
\* resolved both are false for every t.
C32_ActiveExcludesResolvable ==
    /\ m # NoMarket =>
          \A t \in CurrentTimes \cup {m.start_time, m.end_time, m.resolution_time} :
             /\ ~(is_active(m, t) /\ can_resolve(m, t))
             /\ m.resolved => ~is_active(m, t) /\ ~can_resolve(m, t)
    /\ (Called("is_active") /\ ret.val) => ~can_resolve(pre, op.args[1])
    /\ (Called("can_resolve") /\ ret.val) => ~is_active(pre, op.args[1])
    /\ ((Called("is_active") \/ Called("can_resolve")) /\ pre.resolved) => ~ret.val

\* a market that ends when it can be resolved: at that time it can be
\* resolved and is no longer active, one time unit earlier it is active
C32_Witness ==
    /\ Called("can_resolve")
    /\ pre.end_time = pre.resolution_time
    /\ op.args[1] = pre.end_time
    /\ ret.val
    /\ ~is_active(pre, op.args[1])
    /\ is_active(pre, Sub(op.args[1], One))
    /\ ~can_resolve(pre, Sub(op.args[1], One))

\* one step on a market that exists: what it may do to the volume, the fees,
\* b and the timestamps
MarketStep ==
    m # NoMarket =>
       /\ m' # NoMarket
       /\ Ge(m'.total_volume, m.total_volume)
       /\ m'.total_volume # m.total_volume =>
             /\ pc' = "returned"
             /\ op'.name \in {"place_bet", "sell_shares"}
             /\ ret'.ok
       /\ Lt(m'.total_fees_collected, m.total_fees_collected) =>
             /\ pc' = "returned"
             /\ op'.name = "withdraw_fees"
             /\ ret'.ok
       /\ m'.b = m.b
       /\ m'.start_time = m.start_time
       /\ m'.end_time = m.end_time
       /\ m'.resolution_time = m.resolution_time

\* C33: across any sequence of operations total_volume never decreases and
\* grows only with a successful place_bet or sell_shares,
\* total_fees_collected decreases only with a successful withdraw_fees, and
\* b and the three timestamps never change after construction.
C33_MonotoneAndImmutable == [][MarketStep]_vars

\* fees were withdrawn from a market that was traded on: the fees went down,
\* the volume, b and the timestamps stayed
C33_Witness ==
    /\ Called("withdraw_fees")
    /\ ret.ok
    /\ Lt(m.total_fees_collected, pre.total_fees_collected)
    /\ Gt(m.total_volume, Zero)
    /\ m.total_volume = pre.total_volume
    /\ m.b = pre.b
    /\ m.end_time = pre.end_time
    /\ trades = MaxTrades
====
